---- MODULE Spec2Model ----
(***************************************************************************)
(* A model of the EditForm component of ReactFormGenerator                 *)
(* (src/src/components/EditForm.tsx) and of its collaborators: the flat    *)
(* field-name codec, the list-size tracker, the submit handler             *)
(* (decode, upload merge, required / composite / list / rule checks) and   *)
(* the deferred success callback.                                          *)
(*                                                                         *)
(* JavaScript strings are sequences of one-character strings, so that      *)
(* split, join, includes, parseInt and number formatting are computed and  *)
(* not assumed.  JavaScript values are tagged records (see "Values").      *)
(***************************************************************************)
EXTENDS Integers, Sequences, FiniteSets, TLC

(***************************************************************************)
(* Strings                                                                 *)
(***************************************************************************)
US == "_"
LF == "\n"
Digits == <<"0", "1", "2", "3", "4", "5", "6", "7", "8", "9">>
DigitSet == {Digits[i] : i \in 1..10}
WhiteSpace == {" ", LF}

S_listfieldidx_ == <<"l","i","s","t","f","i","e","l","d","i","d","x","_">>
S_listfieldsingleidx_ ==
    <<"l","i","s","t","f","i","e","l","d","s","i","n","g","l","e","i","d","x","_">>
S_content == <<"c","o","n","t","e","n","t">>
S_title == <<"t","i","t","l","e">>
S_subtitle == <<"s","u","b","t","i","t","l","e">>
S_image_url == <<"i","m","a","g","e","_","u","r","l">>
S_image_urls == <<"i","m","a","g","e","_","u","r","l","s">>
S_button_link == <<"b","u","t","t","o","n","_","l","i","n","k">>
S_handle == <<"h","a","n","d","l","e">>
S_url == <<"u","r","l">>
S_profile_photo_url ==
    <<"p","r","o","f","i","l","e","_","p","h","o","t","o","_","u","r","l">>
S_state == <<"s","t","a","t","e">>
S_deleted == <<"d","e","l","e","t","e","d">>
S_city == <<"c","i","t","y">>
S_country == <<"c","o","u","n","t","r","y">>
S_on == <<"o","n">>

Min(a, b) == IF a < b THEN a ELSE b
Max(a, b) == IF a > b THEN a ELSE b

\* String.prototype.includes
Includes(s, sub) ==
    \E i \in 1..(Len(s) - Len(sub) + 1) : SubSeq(s, i, i + Len(sub) - 1) = sub

\* String.prototype.split with a one-character separator
\* The k-th part lies between the separators k - 1 and k, the ends of s
\* standing for the separators 0 and last + 1.
Split(s, sep) ==
    LET at == {i \in 1..Len(s) : s[i] = sep}
        cut(k) == IF k = 0 THEN 0
                  ELSE IF k > Cardinality(at) THEN Len(s) + 1
                  ELSE CHOOSE i \in at : Cardinality({j \in at : j < i}) = k - 1
    IN  [k \in 1..(Cardinality(at) + 1) |-> SubSeq(s, cut(k - 1) + 1, cut(k) - 1)]

\* Array.prototype.slice(from)
Slice(a, from) == SubSeq(a, from + 1, Len(a))

\* Array.prototype.join with a one-character separator
RECURSIVE Join(_, _)
Join(parts, sep) ==
    IF Len(parts) = 0 THEN <<>>
    ELSE IF Len(parts) = 1 THEN parts[1]
    ELSE parts[1] \o <<sep>> \o Join(Tail(parts), sep)

\* Array.prototype.filter(e => !!e) on an array of strings
RECURSIVE FilterNonEmpty(_)
FilterNonEmpty(parts) ==
    IF Len(parts) = 0 THEN <<>>
    ELSE IF Head(parts) = <<>> THEN FilterNonEmpty(Tail(parts))
    ELSE <<Head(parts)>> \o FilterNonEmpty(Tail(parts))

DigitValue(c) == CHOOSE d \in 0..9 : Digits[d + 1] = c

\* Number.prototype.toString for a non-negative integer
RECURSIVE NumToStr(_)
NumToStr(n) ==
    IF n < 10 THEN <<Digits[n + 1]>>
    ELSE NumToStr(n \div 10) \o <<Digits[(n % 10) + 1]>>

\* parseInt(s, 10): leading white space is skipped, an optional sign is read,
\* then the longest run of digits; NaN when there is no digit.
RECURSIVE SkipSpace(_)
SkipSpace(s) ==
    IF Len(s) > 0 /\ Head(s) \in WhiteSpace THEN SkipSpace(Tail(s)) ELSE s
RECURSIVE DigitsValue(_, _, _)
DigitsValue(s, i, acc) ==
    IF i <= Len(s) /\ s[i] \in DigitSet
    THEN DigitsValue(s, i + 1, acc * 10 + DigitValue(s[i]))
    ELSE acc
ParseInt(str) ==
    LET s == SkipSpace(str)
        neg == Len(s) > 0 /\ Head(s) = "-"
        body == IF Len(s) > 0 /\ Head(s) \in {"-", "+"} THEN Tail(s) ELSE s
    IN  IF Len(body) = 0 \/ body[1] \notin DigitSet
        THEN [nan |-> TRUE, n |-> 0]
        ELSE [nan |-> FALSE,
              n |-> IF neg THEN 0 - DigitsValue(body, 1, 0) ELSE DigitsValue(body, 1, 0)]

(***************************************************************************)
(* Values.  A JavaScript value is a record tagged by its typeof: undefined,*)
(* a string, a boolean, or an object.  An object holds its own properties  *)
(* as a function from keys (strings) to values; an array is an object      *)
(* with arr = TRUE, index keys "0", "1", ... and a length.                 *)
(***************************************************************************)
Undefined == [t |-> "undefined"]
Str(s) == [t |-> "string", s |-> s]
Bool(b) == [t |-> "boolean", b |-> b]
Obj(o) == [t |-> "object", arr |-> FALSE, len |-> 0, o |-> o]
Arr(n, o) == [t |-> "object", arr |-> TRUE, len |-> n, o |-> o]
EmptyObj == Obj(<<>>)
EmptyArr == Arr(0, <<>>)

IsUndefined(v) == v.t = "undefined"
IsString(v) == v.t = "string"
IsObject(v) == v.t = "object"

\* Boolean(v): the values the code tests with !v, v && ..., filter(e => e)
Truthy(v) ==
    CASE v.t = "undefined" -> FALSE
      [] v.t = "string" -> v.s # <<>>
      [] v.t = "boolean" -> v.b
      [] OTHER -> TRUE

\* m[k] for a key-to-value function m: undefined when k is not an own key
Lookup(m, k) == IF k \in DOMAIN m THEN m[k] ELSE Undefined

\* m with m[k] = v
Store(m, k, v) == [x \in (DOMAIN m) \cup {k} |-> IF x = k THEN v ELSE m[x]]

\* v[k] where v is an object (or a primitive, whose own properties the model
\* does not need: undefined).  Reading a property of undefined itself throws;
\* callers test IsUndefined first.
GetProp(v, k) == IF IsObject(v) THEN Lookup(v.o, k) ELSE Undefined

\* k in v
HasProp(v, k) == IsObject(v) /\ k \in DOMAIN v.o

\* A canonical array index: the key is the decimal form of a number
IsIndexKey(k) == ~ParseInt(k).nan /\ ParseInt(k).n >= 0 /\ NumToStr(ParseInt(k).n) = k

\* v[k] = x on an object v; an array grows its length past an index key
SetProp(v, k, x) ==
    [v EXCEPT !.o = Store(v.o, k, x),
              !.len = IF v.arr /\ IsIndexKey(k) THEN Max(v.len, ParseInt(k).n + 1)
                      ELSE v.len]

\* An array literal [a[1], ..., a[n]]
ArrOf(a) == Arr(Len(a), [k \in {NumToStr(i - 1) : i \in 1..Len(a)} |->
                            a[ParseInt(k).n + 1]])

\* Object.keys(v).length
NumKeys(v) ==
    CASE IsObject(v) -> Cardinality(DOMAIN v.o)
      [] IsString(v) -> Len(v.s)
      [] OTHER -> 0

(***************************************************************************)
(* FieldNameCodec.  The encoder is the set of name attributes the render   *)
(* function gives its inputs; the decoder is the name analysis at the head *)
(* of handleSubmit's loop over the form's elements.                        *)
(***************************************************************************)
\* name={editEntry.attribute}
EncodeAttribute(attribute) == attribute

\* name={editEntry.attribute + "_listfieldsingleidx_" + i}
EncodeSingle(attribute, i) ==
    attribute \o <<US>> \o S_listfieldsingleidx_ \o NumToStr(i)

\* name={editEntry.attribute + "_listfieldidx_" + i + "_0"} (and "_1")
EncodePaired(attribute, i, p) ==
    attribute \o <<US>> \o S_listfieldidx_ \o NumToStr(i) \o <<US>> \o NumToStr(p)

\* name={editEntry.attribute + "_title"}, + "_city", ...
EncodeSub(attribute, subfield) == attribute \o <<US>> \o subfield

NoPath == [kind |-> "none", field |-> <<>>, sub |-> <<>>,
           idx |-> [nan |-> TRUE, n |-> 0], subsub |-> <<>>]

\* Decode with the sub-field taken as the second segment alone
\* (split("_")[1] in place of split("_").slice(1).join("_"))
DecodeSecondSegment(name, updateTargets) ==
    IF name = <<>> THEN NoPath
    ELSE IF name \in updateTargets
    THEN [NoPath EXCEPT !.kind = "attribute", !.field = name]
    ELSE IF Includes(name, <<US>>) /\ Split(name, US)[1] \in updateTargets
    THEN LET entity_field == Split(name, US)[1]
             entity_sub_field == Split(name, US)[2]
             parts == Split(name, US)
         IN  IF Includes(entity_sub_field, S_listfieldidx_)
             THEN [kind |-> "paired", field |-> entity_field, sub |-> entity_sub_field,
                   idx |-> ParseInt(parts[3]), subsub |-> Join(Slice(parts, 3), US)]
             ELSE IF Includes(entity_sub_field, S_listfieldsingleidx_)
             THEN [kind |-> "single", field |-> entity_field, sub |-> entity_sub_field,
                   idx |-> ParseInt(parts[3]), subsub |-> <<>>]
             ELSE [kind |-> "sub", field |-> entity_field, sub |-> entity_sub_field,
                   idx |-> [nan |-> TRUE, n |-> 0], subsub |-> <<>>]
    ELSE NoPath

\* The analysis of target.name: which branch of the loop body is taken and
\* the values of entity_field, entity_sub_field, entity_curr_idx and
\* entity_sub_sub_field in it.
Decode(name, updateTargets) ==
    IF name = <<>> THEN NoPath
    ELSE IF name \in updateTargets
    THEN [NoPath EXCEPT !.kind = "attribute", !.field = name]
    ELSE IF Includes(name, <<US>>) /\ Split(name, US)[1] \in updateTargets
    THEN LET entity_field == Split(name, US)[1]
             entity_sub_field == Join(Slice(Split(name, US), 1), US)
             parts == Split(entity_sub_field, US)
         IN  IF Includes(entity_sub_field, S_listfieldidx_)
             THEN [kind |-> "paired", field |-> entity_field, sub |-> entity_sub_field,
                   idx |-> ParseInt(parts[2]), subsub |-> Join(Slice(parts, 2), US)]
             ELSE IF Includes(entity_sub_field, S_listfieldsingleidx_)
             THEN [kind |-> "single", field |-> entity_field, sub |-> entity_sub_field,
                   idx |-> ParseInt(parts[2]), subsub |-> <<>>]
             ELSE [kind |-> "sub", field |-> entity_field, sub |-> entity_sub_field,
                   idx |-> [nan |-> TRUE, n |-> 0], subsub |-> <<>>]
    ELSE NoPath


(***************************************************************************)
(* ValidationEngine: validateValue.  The result is whether the rule passed *)
(* and the messages it sent to toast.error.                                *)
(***************************************************************************)
LowerSet == {"a","b","c","d","e","f","g","h","i","j","k","l","m",
             "n","o","p","q","r","s","t","u","v","w","x","y","z"}

IsNonSpace(c) == c \notin WhiteSpace

\* /\S+@\S+\.\S+/.test(s)
MatchesEmail(s) ==
    \E i \in 2..Len(s) : \E j \in (i + 2)..(Len(s) - 1) :
        /\ s[i] = "@" /\ IsNonSpace(s[i - 1])
        /\ s[j] = "." /\ IsNonSpace(s[j + 1])
        /\ \A k \in (i + 1)..(j - 1) : IsNonSpace(s[k])

\* /^[a-z0-9_]+$/.test(s)
MatchesUserName(s) ==
    Len(s) > 0 /\ \A i \in 1..Len(s) : s[i] \in LowerSet \cup DigitSet \cup {US}

\* /^\d*\.?\d*$/.test(s)
MatchesDecimal(s) ==
    /\ \A i \in 1..Len(s) : s[i] \in DigitSet \cup {"."}
    /\ Cardinality({i \in 1..Len(s) : s[i] = "."}) <= 1

\* value.match(/\d/g): the number of digits (null when there is none)
CountDigits(s) == Cardinality({i \in 1..Len(s) : s[i] \in DigitSet})

AllZero(s) == \A i \in 1..Len(s) : s[i] = "0"

\* The digits of s from its first digit that is not 0
StripZeros(s) ==
    LET nz == {i \in 1..Len(s) : s[i] # "0"}
    IN  IF nz = {} THEN <<>>
        ELSE SubSeq(s, CHOOSE i \in nz : \A j \in nz : i <= j, Len(s))

\* The price test with 9999 itself out of the range
PriceOutOfRangeInclusive(s) ==
    LET parts == Split(s, ".")
        int == StripZeros(parts[1])
        frac == IF Len(parts) > 1 THEN parts[2] ELSE <<>>
    IN  /\ ~(parts[1] = <<>> /\ frac = <<>>)
        /\ \/ (int = <<>> /\ AllZero(frac))
           \/ Len(int) > 4
           \/ DigitsValue(int, 1, 0) >= 9999

\* parseFloat(s) for s matching /^\d*\.?\d*$/, compared with 0 and 9999:
\* NaN (no digit before a non-digit) compares false both ways.  A whole part
\* of more than four digits after its leading zeros is more than 9999.
PriceOutOfRange(s) ==
    LET parts == Split(s, ".")
        int == StripZeros(parts[1])
        frac == IF Len(parts) > 1 THEN parts[2] ELSE <<>>
        isNaN == parts[1] = <<>> /\ frac = <<>>
    IN  /\ ~isNaN
        /\ \/ (int = <<>> /\ AllZero(frac))
           \/ Len(int) > 4
           \/ DigitsValue(int, 1, 0) > 9999
           \/ (DigitsValue(int, 1, 0) = 9999 /\ ~AllZero(frac))

\* parseInt(s, 10) compared with 0 and 999
NumberOutOfRange(s) ==
    LET number == ParseInt(s)
    IN  ~number.nan /\ (number.n <= 0 \/ number.n > 999)

Pass == [ok |-> TRUE, msgs |-> <<>>]
Fail(msg, attributeName) == [ok |-> FALSE, msgs |-> <<<<msg, attributeName>>>>]

\* The length test with the limit itself too long
TextLengthBelowInclusive(value, attributeName, n, msg) ==
    IF ~Truthy(value) THEN [ok |-> TRUE, msgs |-> <<>>]
    ELSE IF IsString(value) /\ Len(value.s) >= n
    THEN [ok |-> FALSE, msgs |-> <<<<msg, attributeName>>>>]
    ELSE [ok |-> TRUE, msgs |-> <<>>]

TextLengthBelow(value, attributeName, n, msg) ==
    IF ~Truthy(value) THEN Pass
    ELSE IF IsString(value) /\ Len(value.s) > n THEN Fail(msg, attributeName)
    ELSE Pass

validateValue(value, attributeName, validationType) ==
    CASE validationType = "Email" ->
           IF IsString(value) /\ (Len(value.s) > 100 \/ ~MatchesEmail(value.s))
           THEN Fail("Email format is invalid.", attributeName) ELSE Pass
      [] validationType = "PhoneNumber" ->
           IF IsString(value) /\ Truthy(value) /\ CountDigits(value.s) \notin {10, 11}
           THEN Fail("Phone number format is invalid.", attributeName) ELSE Pass
      [] validationType = "UserName" ->
           IF ~IsString(value) THEN Fail("Invalid User name", attributeName)
           ELSE IF ~MatchesUserName(value.s)
           THEN Fail("User name can only contain a~z, number and _.", attributeName)
           ELSE Pass
      [] validationType = "CheckboxChecked" ->
           IF ~Truthy(value) THEN Fail("Please check the box.", attributeName) ELSE Pass
      [] validationType = "RequiredField" ->
           IF ~Truthy(value) \/ (IsString(value) /\ \A i \in 1..Len(value.s) :
                                                       value.s[i] \in WhiteSpace)
           THEN Fail("is required!", attributeName) ELSE Pass
      [] validationType = "TextLengthBelow30" ->
           TextLengthBelow(value, attributeName, 30, "Needs to be shorter than 30 characters")
      [] validationType = "TextLengthBelow50" ->
           TextLengthBelow(value, attributeName, 50, "Needs to be shorter than 50 characters")
      [] validationType = "TextLengthBelow100" ->
           TextLengthBelow(value, attributeName, 100, "Needs to be shorter than 100 characters")
      [] validationType = "TextLengthBelow200" ->
           TextLengthBelow(value, attributeName, 200, "Needs to be shorter than 200 characters")
      [] validationType = "TextLengthBelow300" ->
           TextLengthBelow(value, attributeName, 300, "Needs to be shorter than 300 characters")
      [] validationType = "TextLengthBelow400" ->
           TextLengthBelow(value, attributeName, 400, "Needs to be shorter than 400 characters")
      [] validationType = "Price" ->
           IF IsString(value) /\ Truthy(value)
           THEN IF Len(value.s) > 100 \/ ~MatchesDecimal(value.s)
                THEN Fail("is invalid. Please enter a valid number with only digits or a decimal.",
                          attributeName)
                ELSE IF Len(Split(value.s, ".")) > 1 /\ Len(Split(value.s, ".")[2]) > 2
                THEN Fail("is invalid. Please enter a valid number with only digits or a decimal.",
                          attributeName)
                ELSE IF PriceOutOfRange(value.s)
                THEN Fail("Please enter a number between 0-9999", attributeName)
                ELSE Pass
           ELSE Pass
      [] validationType = "Number" ->
           IF IsString(value) /\ Truthy(value)
           THEN IF Len(value.s) > 10 \/ ~MatchesDecimal(value.s)
                THEN Fail("is invalid. Please enter a valid number", attributeName)
                ELSE IF NumberOutOfRange(value.s)
                THEN Fail("Please enter a number between 0-999", attributeName)
                ELSE Pass
           ELSE Pass
      [] OTHER -> Pass


(***************************************************************************)
(* Descriptors (EditEntry) and the forms the model opens.                  *)
(***************************************************************************)
A_name == <<"n","a","m","e">>
A_bio == <<"b","i","o">>
A_tags == <<"t","a","g","s">>
A_faq == <<"f","a","q">>
A_old == <<"o","l","d">>
A_art == <<"a","r","t">>
A_show == <<"s","h","o","w">>
A_home_address == <<"h","o","m","e","_","a","d","d","r","e","s","s">>
A_main_art == <<"m","a","i","n","_","a","r","t">>
A_agree == <<"a","g","r","e","e">>
A_pills == <<"p","i","l","l","s">>
A_photo == <<"p","h","o","t","o">>
A_avatar == <<"a","v","a","t","a","r">>
A_insta == <<"i","n","s","t","a">>
V_a == <<"a">>
V_A == <<"A">>
V_ab == <<"a", LF, "b">>

\* An EditEntry; condition is TRUE when the descriptor gives none
Entry(attribute, attributeName, type, isRequired, validations, condition) ==
    [attribute |-> attribute, attributeName |-> attributeName, type |-> type,
     isRequired |-> isRequired, validations |-> validations, condition |-> condition,
     isInstagramShowcase |-> FALSE, maxPhotos |-> 0]

TextForm ==
    << Entry(A_name, "Name", "Text", TRUE, <<"UserName">>, TRUE),
       Entry(A_bio, "Bio", "TextArea", FALSE, <<"RequiredField", "UserName">>, TRUE) >>
TextListForm ==
    << Entry(A_tags, "Tags", "TextList", FALSE, <<>>, TRUE) >>
DoubleTextListForm ==
    << Entry(A_faq, "FAQ", "DoubleTextList", FALSE, <<>>, TRUE),
       Entry(A_old, "Old FAQ", "DoubleTextList", FALSE, <<>>, FALSE) >>
ArticleForm ==
    << Entry(A_art, "Article", "Article", FALSE, <<>>, TRUE),
       Entry(A_show, "Showcase", "Showcase", FALSE, <<>>, FALSE) >>
UnderscoreForm ==
    << Entry(A_home_address, "Home address", "Address", TRUE, <<>>, TRUE),
       Entry(A_main_art, "Main article", "Article", FALSE, <<>>, TRUE) >>

ListsForm ==
    << Entry(A_tags, "Tags", "TextList", FALSE, <<>>, TRUE),
       Entry(A_faq, "FAQ", "DoubleTextList", FALSE, <<>>, TRUE),
       Entry(A_name, "Name", "Text", FALSE, <<>>, TRUE) >>

CheckboxForm ==
    << Entry(A_name, "Name", "Text", TRUE, <<>>, TRUE),
       Entry(A_agree, "Agree", "Checkbox", TRUE, <<"CheckboxChecked">>, TRUE) >>

\* The form of App.tsx
PillForm ==
    << Entry(A_pills, "Pills", "PillList", TRUE, <<>>, TRUE) >>

\* A caption and a photo kept under the same attribute
PhotoForm ==
    << Entry(A_photo, "Caption", "Text", FALSE, <<>>, TRUE),
       Entry(A_photo, "Photo", "Photo", FALSE, <<>>, TRUE) >>

ShowcaseForm ==
    << Entry(A_show, "Showcase", "Showcase", FALSE, <<>>, TRUE) >>

InstagramForm ==
    << [Entry(A_insta, "Instagram", "Showcase", FALSE, <<>>, TRUE)
          EXCEPT !.isInstagramShowcase = TRUE] >>

PlainArticleForm ==
    << Entry(A_art, "Article", "Article", FALSE, <<>>, TRUE) >>

\* Two photos, each uploaded under its own attribute
PhotosForm ==
    << Entry(A_photo, "Photo", "Photo", FALSE, <<>>, TRUE),
       Entry(A_avatar, "Avatar", "Photo", FALSE, <<>>, TRUE) >>

Forms == <<TextForm, TextListForm, DoubleTextListForm, ArticleForm, UnderscoreForm,
           ListsForm, CheckboxForm, PillForm, PhotoForm, ShowcaseForm, InstagramForm,
           PlainArticleForm, PhotosForm>>

QA(q, a) == ArrOf(<<Str(q), Str(a)>>)

\* A File of the browser's file list: it has no own state property
FileObject == EmptyObj

\* A stored file in the given state
StoredFile(state) == Obj((S_state :> Str(state)))

\* A showcase that holds the given image entries and nothing else
Images(entries) == Obj((S_image_urls :> ArrOf(entries)))

CompleteArticle ==
    Obj((S_title :> Str(V_a)) @@ (S_content :> ArrOf(<<Str(V_a)>>))
        @@ (S_image_url :> Str(V_a)))

\* props.entityObj: the entities each form is opened on
InitialEntities(f) ==
    CASE f = 1 -> { <<>>, (A_name :> Str(V_a)) }
      [] f = 2 -> { <<>>, (A_tags :> ArrOf(<<Str(V_a), Str(V_a)>>)) }
      [] f = 3 -> { <<>>,
                    (A_faq :> ArrOf(<<QA(V_a, V_a), QA(V_a, V_a)>>)),
                    (A_faq :> ArrOf(<<QA(V_a, V_a), QA(V_a, V_a)>>))
                      @@ (A_old :> ArrOf(<<ArrOf(<<Str(V_a)>>), QA(V_a, V_a)>>)) }
      [] f = 4 -> { <<>>, (A_art :> CompleteArticle) @@ (A_show :> EmptyObj) }
      [] f = 5 -> { <<>>,
                    (A_home_address :> Obj((S_city :> Str(V_a)))),
                    (A_home_address :> Obj((S_city :> Str(V_a))))
                      @@ (A_main_art :> CompleteArticle) }
      [] f = 6 -> { <<>>,
                    (A_tags :> ArrOf([i \in 1..11 |-> Str(V_a)])),
                    (A_faq :> ArrOf(<<QA(V_a, V_a)>>)) }
      [] f = 7 -> { <<>>, (A_name :> Str(V_a)) @@ (A_agree :> Bool(TRUE)) }
      [] f = 8 -> { <<>>, (A_pills :> ArrOf(<<Str(V_A), Str(<<"B">>)>>)) }
      [] f = 9 -> { <<>>, (A_photo :> Str(V_a)) }
      [] f = 10 -> { <<>>,
                     (A_show :> Images(<<StoredFile(<<"r","e","a","d","y">>)>>)),
                     (A_show :> Images(<<StoredFile(S_deleted)>>)),
                     (A_show :> Images(<<FileObject>>)) }
      [] f = 11 -> { <<>>,
                     (A_insta :> Images(<<StoredFile(<<"r","e","a","d","y">>)>>)) }
      [] f = 12 -> { <<>>,
                     (A_art :> Obj((S_button_link :> Str(V_a)))),
                     (A_art :> CompleteArticle) }
      [] f = 13 -> { <<>> }

IsListType(type) == type \in {"TextList", "DoubleTextList"}

\* const updateTargets = new Set(props.editEntries.map(e => e.attribute))
UpdateTargets(editEntries) == {editEntries[i].attribute : i \in 1..Len(editEntries)}

\* const editEntryIdx = Object.fromEntries(props.editEntries.map((e, index) =>
\* [e.attribute, index])): a later descriptor of the same attribute wins.
\* Positions are 1-based here.
EditEntryIdx(editEntries, attribute) ==
    CHOOSE i \in 1..Len(editEntries) :
        /\ editEntries[i].attribute = attribute
        /\ \A j \in 1..Len(editEntries) : editEntries[j].attribute = attribute => j <= i

\* The effect that initialises listFieldSize from props.entityObj
ListFieldSizeInit(editEntries, entityObj) ==
    [i \in 1..Len(editEntries) |->
        IF IsListType(editEntries[i].type)
        THEN IF editEntries[i].attribute \in DOMAIN entityObj
                /\ Truthy(entityObj[editEntries[i].attribute])
             THEN NumKeys(entityObj[editEntries[i].attribute])
             ELSE 0
        ELSE 0]


(***************************************************************************)
(* The form's controls (event.target.elements), in render order.           *)
(***************************************************************************)
S_street_address == <<"s","t","r","e","e","t","_","a","d","d","r","e","s","s">>
S_province == <<"p","r","o","v","i","n","c","e">>
S_postal_code == <<"p","o","s","t","a","l","_","c","o","d","e">>
V_UnitedStates == <<"U","n","i","t","e","d"," ","S","t","a","t","e","s">>

Control(name, value, type, checked) ==
    [name |-> name, value |-> value, type |-> type, checked |-> checked]
Input(name, value) == Control(name, value, "text", FALSE)
\* <button type="button">, <input type="file"> without a name
Unnamed(type) == Control(<<>>, <<>>, type, FALSE)

RECURSIVE TextListRows(_, _, _, _)
TextListRows(attribute, i, size, value) ==
    IF i >= size THEN <<>>
    ELSE <<Input(EncodeSingle(attribute, i), value)>>
         \o TextListRows(attribute, i + 1, size, value)

RECURSIVE DoubleTextListRows(_, _, _, _)
DoubleTextListRows(attribute, i, size, value) ==
    IF i >= size THEN <<>>
    ELSE <<Input(EncodePaired(attribute, i, 0), value),
           Input(EncodePaired(attribute, i, 1), value)>>
         \o DoubleTextListRows(attribute, i + 1, size, value)

\* uploadPhotoMap[name], tested for truth
Uploaded(uploadPhotoMap, name) ==
    \E i \in 1..Len(uploadPhotoMap) :
        uploadPhotoMap[i].name = name /\ uploadPhotoMap[i].path # <<>>

\* The value of a file input that holds a chosen file
V_fakepath == <<"C",":","\\","f","a","k","e","p","a","t","h","\\","f">>

\* What the user typed: one value per scalar control (by descriptor
\* position), one for the rows of a list, one per composite sub-field.
RenderEntry(editEntry, index, size, checkboxFieldValue, typed, e, uploadPhotoMap) ==
    LET a == editEntry.attribute
        type == editEntry.type
    IN  IF ~editEntry.condition THEN <<>>
        ELSE CASE type \in {"Text", "Date", "TextArea"} ->
                    <<Input(EncodeAttribute(a), typed.scalar[index])>>
               [] type = "TextList" ->
                    TextListRows(a, 0, size, typed.row)
                    \o <<Unnamed("button"), Unnamed("button")>>
               [] type = "DoubleTextList" ->
                    DoubleTextListRows(a, 0, size, typed.row)
                    \o <<Unnamed("button"), Unnamed("button")>>
               [] type = "Checkbox" ->
                    <<Control(EncodeAttribute(a), S_on, "checkbox", checkboxFieldValue)>>
               [] type = "Article" ->
                    <<Input(EncodeSub(a, S_title), typed.title),
                      Input(EncodeSub(a, S_subtitle), typed.subtitle),
                      Input(EncodeSub(a, S_content), typed.content),
                      Unnamed("button"), Unnamed("file")>>
               [] type = "Address" ->
                    <<Input(EncodeSub(a, S_street_address), typed.addr),
                      Input(EncodeSub(a, S_city), typed.addr),
                      Input(EncodeSub(a, S_province), typed.addr),
                      Input(EncodeSub(a, S_country), V_UnitedStates),
                      Input(EncodeSub(a, S_postal_code), typed.addr)>>
               [] type = "Photo" ->
                    IF ~Uploaded(uploadPhotoMap, EncodeAttribute(a)) /\ ~Truthy(Lookup(e, a))
                    THEN <<Control(EncodeAttribute(a), typed.file, "file", FALSE)>>
                    ELSE <<Unnamed("button"), Unnamed("file")>>
               [] type = "Showcase" ->
                    <<Input(EncodeSub(a, S_title), typed.title)>>
                    \o (IF editEntry.isInstagramShowcase
                        THEN <<Input(EncodeSub(a, S_handle), typed.handle),
                               Input(EncodeSub(a, S_url), typed.url),
                               Unnamed("button"), Unnamed("file")>>
                        ELSE <<>>)
                    \o <<Unnamed("button"), Unnamed("file")>>
               [] type = "PillList" ->
                    <<Unnamed("text"), Unnamed("button")>>
               [] OTHER -> <<>>

RECURSIVE RenderFrom(_, _, _, _, _, _, _)
RenderFrom(editEntries, index, sizes, checkboxFieldValue, typed, e, uploadPhotoMap) ==
    IF index > Len(editEntries) THEN <<>>
    ELSE RenderEntry(editEntries[index], index, sizes[index], checkboxFieldValue, typed,
                     e, uploadPhotoMap)
         \o RenderFrom(editEntries, index + 1, sizes, checkboxFieldValue, typed,
                       e, uploadPhotoMap)

Rendered(editEntries, type) ==
    \E i \in 1..Len(editEntries) : editEntries[i].type = type /\ editEntries[i].condition

Instagram(editEntries) ==
    \E i \in 1..Len(editEntries) :
        /\ editEntries[i].type = "Showcase"
        /\ editEntries[i].condition
        /\ editEntries[i].isInstagramShowcase

ScalarValues(editEntry) ==
    IF ~editEntry.condition THEN {<<>>}
    ELSE CASE editEntry.type = "Text" -> {<<>>, V_a, V_A}
           [] editEntry.type = "TextArea" -> {<<>>, V_a, V_ab}
           [] OTHER -> {<<>>}

\* The values a user may have typed into the rendered controls
TypedChoices(editEntries) ==
    LET some(types) == \E ty \in types : Rendered(editEntries, ty)
        opt(types, values) == IF some(types) THEN values ELSE {<<>>}
    IN  { [scalar |-> sc, row |-> r, title |-> ti, subtitle |-> su,
           content |-> co, addr |-> ad, file |-> fi, handle |-> ha, url |-> ur] :
            sc \in { f \in [1..Len(editEntries) -> {<<>>, V_a, V_A, V_ab}] :
                       \A i \in 1..Len(editEntries) : f[i] \in ScalarValues(editEntries[i]) },
            r \in opt({"TextList", "DoubleTextList"}, {<<>>, V_a}),
            ti \in opt({"Article", "Showcase"}, {<<>>, V_a}),
            su \in opt({"Article"}, {<<>>, V_a}),
            co \in opt({"Article"}, {<<>>, V_a, V_ab, <<LF>>}),
            ad \in opt({"Address"}, {<<>>, V_a}),
            fi \in opt({"Photo"}, {<<>>, V_fakepath}),
            ha \in IF Instagram(editEntries) THEN {<<>>, V_a} ELSE {<<>>},
            ur \in IF Instagram(editEntries) THEN {<<>>, V_a} ELSE {<<>>} }

\* A control the render function did not produce for the current state: the
\* row just past the end of a list, left over from a removed row.
StaleControls(editEntries, sizes) ==
    { <<Input(EncodeSingle(editEntries[i].attribute, sizes[i]), V_a)>> :
        i \in {j \in 1..Len(editEntries) :
                 editEntries[j].type = "TextList" /\ editEntries[j].condition} }
    \cup
    { <<Input(EncodePaired(editEntries[i].attribute, sizes[i], p), V_a)>> :
        i \in {j \in 1..Len(editEntries) :
                 editEntries[j].type = "DoubleTextList" /\ editEntries[j].condition},
        p \in {0, 1} }


(***************************************************************************)
(* handleSubmit, first loop: EntityMutator.  A step yields the entity and  *)
(* whether the statement threw (a property written on a primitive or read  *)
(* from undefined is a TypeError in module code).                          *)
(***************************************************************************)
S_NaN == <<"N","a","N">>

\* The property key a number indexes: String(n)
IndexKey(idx) ==
    IF idx.nan THEN S_NaN
    ELSE IF idx.n < 0 THEN <<"-">> \o NumToStr(0 - idx.n)
    ELSE NumToStr(idx.n)

Ok(e) == [e |-> e, threw |-> FALSE]
Threw(e) == [e |-> e, threw |-> TRUE]

\* target.value.split("\n").filter(e => !!e) when the value holds a newline
\* or the sub-field is "content" and the value is not empty
SubFieldValue(entity_sub_field, value) ==
    IF Includes(value, <<LF>>) \/ (entity_sub_field = S_content /\ value # <<>>)
    THEN ArrOf([i \in 1..Len(FilterNonEmpty(Split(value, LF))) |->
                   Str(FilterNonEmpty(Split(value, LF))[i])])
    ELSE Str(value)

\* The bound check with > in place of >=
AtOrPastStrict(idx, max_idx_to_take) == ~idx.nan /\ idx.n > max_idx_to_take

\* entity_curr_idx >= max_idx_to_take (false when the index is NaN)
AtOrPast(idx, max_idx_to_take) == ~idx.nan /\ idx.n >= max_idx_to_take

\* The loop body without the test of the name against the declared
\* attributes: a named input that decodes to nothing is written as it is
WriteDecodedUndeclared(e, target, path, max_idx_to_take) ==
    IF target.name = <<>> THEN Ok(e)
    ELSE IF path.kind = "attribute" /\ target.type = "radio" /\ ~target.checked THEN Ok(e)
    ELSE Ok(Store(e, target.name, Str(target.value)))

\* The writes of the loop body once the name is analysed into path
WriteDecoded(e, target, path, max_idx_to_take) ==
    LET current == Lookup(e, path.field)
        key == IndexKey(path.idx)
    IN  CASE path.kind = "none" -> Ok(e)
          [] path.kind = "attribute" ->
               IF target.type = "radio" /\ ~target.checked THEN Ok(e)
               ELSE Ok(Store(e, target.name, Str(target.value)))
          [] path.kind = "paired" ->
               IF AtOrPast(path.idx, max_idx_to_take) THEN Ok(e)
               ELSE LET list == IF Truthy(current) THEN current ELSE EmptyArr
                        row == IF Truthy(GetProp(list, key)) THEN GetProp(list, key)
                               ELSE EmptyObj
                    IN  IF ~IsObject(list) \/ ~IsObject(row) THEN Threw(e)
                        ELSE Ok(Store(e, path.field,
                                      SetProp(list, key,
                                              SetProp(row, path.subsub, Str(target.value)))))
          [] path.kind = "single" ->
               IF AtOrPast(path.idx, max_idx_to_take) THEN Ok(e)
               ELSE LET list == IF Truthy(current) THEN current ELSE EmptyArr
                    IN  IF ~IsObject(list) THEN Threw(e)
                        ELSE Ok(Store(e, path.field,
                                      SetProp(list, key, Str(target.value))))
          [] path.kind = "sub" ->
               LET container == IF Truthy(current) THEN current ELSE EmptyObj
               IN  IF ~IsObject(container) THEN Threw(e)
                   ELSE Ok(Store(e, path.field,
                                 SetProp(container, path.sub,
                                         SubFieldValue(path.sub, target.value))))

\* listFieldSize[editEntryIdx[entity_field]], read in the two list branches
MaxIdxToTake(path, editEntries, listFieldSize) ==
    IF path.kind \in {"paired", "single"}
    THEN listFieldSize[EditEntryIdx(editEntries, path.field)]
    ELSE 0

DecodePath(e, target, path, editEntries, listFieldSize) ==
    WriteDecoded(e, target, path, MaxIdxToTake(path, editEntries, listFieldSize))

\* The body of the loop over the form's elements, for one element
DecodeElement(e, target, editEntries, listFieldSize) ==
    DecodePath(e, target, Decode(target.name, UpdateTargets(editEntries)),
               editEntries, listFieldSize)

\* for (let i = 0; i < formElements.length; i++) { ... }; r is the entity so
\* far and whether a statement threw
RECURSIVE DecodeLoop(_, _, _, _, _)
DecodeLoop(r, formElements, i, editEntries, listFieldSize) ==
    IF r.threw \/ i > Len(formElements) THEN r
    ELSE DecodeLoop(DecodeElement(r.e, formElements[i], editEntries, listFieldSize),
                    formElements, i + 1, editEntries, listFieldSize)

(***************************************************************************)
(* handleSubmit, second loop: UploadMerge.  uploadPhotoMap is the sequence *)
(* of its [name, path] entries in insertion order.                         *)
(***************************************************************************)
MergeUpload(e, target_name, target_value, editEntries) ==
    LET updateTargets == UpdateTargets(editEntries)
    IN  IF target_name \in updateTargets THEN Ok(Store(e, target_name, Str(target_value)))
        ELSE IF Includes(target_name, <<US>>) /\ Split(target_name, US)[1] \in updateTargets
        THEN LET entity_field == Split(target_name, US)[1]
                 entity_sub_field == Join(Slice(Split(target_name, US), 1), US)
                 container == IF Truthy(Lookup(e, entity_field))
                              THEN Lookup(e, entity_field) ELSE EmptyObj
             IN  IF ~IsObject(container) THEN Threw(e)
                 ELSE Ok(Store(e, entity_field,
                               SetProp(container, entity_sub_field, Str(target_value))))
        ELSE Ok(e)

RECURSIVE MergeLoop(_, _, _, _)
MergeLoop(r, uploadPhotoMap, i, editEntries) ==
    IF r.threw \/ i > Len(uploadPhotoMap) THEN r
    ELSE MergeLoop(MergeUpload(r.e, uploadPhotoMap[i].name, uploadPhotoMap[i].path,
                               editEntries),
                   uploadPhotoMap, i + 1, editEntries)


(***************************************************************************)
(* handleSubmit, third loop: the checks of each descriptor, in order.      *)
(* A check that ran is logged as [pos, check, rule, ok].                   *)
(***************************************************************************)
Chk(pos, check, rule, ok) == [pos |-> pos, check |-> check, rule |-> rule, ok |-> ok]

Step(status, e, errors, log) ==
    [status |-> status, e |-> e, errors |-> errors, log |-> log]

\* Object.fromEntries(Object.entries(value).filter(...)): the list pruning
\* The pruning with the last kept row cut off as well
PruneListDropLast(value, max_idx_to_take) ==
    LET obj == IF ~Truthy(value) \/ ~IsObject(value) THEN EmptyObj ELSE value
        keep == { k \in DOMAIN obj.o :
                    /\ ~ParseInt(k).nan
                    /\ ParseInt(k).n < max_idx_to_take
                    /\ Truthy(obj.o[k])
                    /\ IsObject(obj.o[k])
                    /\ HasProp(obj.o[k], <<"0">>)
                    /\ HasProp(obj.o[k], <<"1">>) }
        cut == { k \in keep : \E j \in keep : ParseInt(j).n > ParseInt(k).n }
    IN  Obj([k \in cut |-> obj.o[k]])

PruneList(value, max_idx_to_take) ==
    LET obj == IF ~Truthy(value) \/ ~IsObject(value) THEN EmptyObj ELSE value
        keep == { k \in DOMAIN obj.o :
                    /\ ~ParseInt(k).nan
                    /\ ParseInt(k).n < max_idx_to_take
                    /\ Truthy(obj.o[k])
                    /\ IsObject(obj.o[k])
                    /\ HasProp(obj.o[k], <<"0">>)
                    /\ HasProp(obj.o[k], <<"1">>) }
    IN  Obj([k \in keep |-> obj.o[k]])

\* One rule's result added to the descriptor's step so far
WithRule(s, r, pos, j) ==
    Step(IF r.ok THEN "ok" ELSE "rejected", s.e, s.errors \o r.msgs,
         Append(s.log, Chk(pos, "rule", j, r.ok)))

\* The rule loop without its return: every rule of the descriptor is run
RECURSIVE RunValidationsAll(_, _, _, _)
RunValidationsAll(s, editEntry, pos, j) ==
    IF j > Len(editEntry.validations) THEN s
    ELSE RunValidationsAll(
             [WithRule(s, validateValue(Lookup(s.e, editEntry.attribute),
                                        editEntry.attributeName, editEntry.validations[j]),
                       pos, j)
                EXCEPT !.status = IF s.status = "ok" THEN @ ELSE s.status],
             editEntry, pos, j + 1)

\* for (const validation of editEntry.validations) if (!validateValue(...)) return
RECURSIVE RunValidations(_, _, _, _)
RunValidations(s, editEntry, pos, j) ==
    IF s.status # "ok" \/ j > Len(editEntry.validations) THEN s
    ELSE RunValidations(
             WithRule(s, validateValue(Lookup(s.e, editEntry.attribute),
                                       editEntry.attributeName, editEntry.validations[j]),
                      pos, j),
             editEntry, pos, j + 1)

CountTruthy(values) == Cardinality({i \in 1..Len(values) : Truthy(values[i])})

\* showcase.image_urls.filter(...).length
NumPhotos(showcase) ==
    IF /\ Truthy(showcase) /\ IsObject(showcase)
       /\ HasProp(showcase, S_image_urls)
       /\ IsObject(GetProp(showcase, S_image_urls))
       /\ GetProp(showcase, S_image_urls).arr
    THEN LET image_urls == GetProp(showcase, S_image_urls).o
         IN  Cardinality({ k \in DOMAIN image_urls :
                             /\ Truthy(image_urls[k])
                             /\ IsObject(image_urls[k])
                             /\ HasProp(image_urls[k], S_state)
                             /\ GetProp(image_urls[k], S_state) # Str(S_deleted) })
    ELSE 0

\* if (editEntry.isRequired && !entity[editEntry.attribute]) { toast; return }
CheckRequired(s, editEntry, pos) ==
    IF ~editEntry.isRequired THEN s
    ELSE IF ~Truthy(Lookup(s.e, editEntry.attribute))
    THEN Step("rejected", s.e,
              s.errors \o <<<<"Field is required", editEntry.attributeName>>>>,
              Append(s.log, Chk(pos, "required", 0, FALSE)))
    ELSE Step("ok", s.e, s.errors, Append(s.log, Chk(pos, "required", 0, TRUE)))

\* if (editEntry.type === EditType.Checkbox) entity[attribute] = checkboxFieldValue
CheckCheckbox(s, editEntry, checkboxFieldValue) ==
    IF s.status # "ok" \/ editEntry.type # "Checkbox" THEN s
    ELSE Step("ok", Store(s.e, editEntry.attribute, Bool(checkboxFieldValue)),
              s.errors, s.log)

\* The Article block, article being entity[editEntry.attribute]
ArticleStep(s, editEntry, pos, article) ==
    LET filledCount == CountTruthy(<<GetProp(article, S_title), GetProp(article, S_content),
                                     GetProp(article, S_image_url),
                                     GetProp(article, S_subtitle),
                                     GetProp(article, S_button_link)>>)
        mandatoryFilledCount ==
            CountTruthy(<<GetProp(article, S_title), GetProp(article, S_content),
                          GetProp(article, S_image_url)>>)
    IN  IF IsUndefined(article) THEN Step("threw", s.e, s.errors, s.log)
        ELSE IF filledCount > 0 /\ mandatoryFilledCount < 3
        THEN Step("rejected", s.e,
                  s.errors \o <<<<"Title, Content, and Photo are required", editEntry.attributeName>>>>,
                  Append(s.log, Chk(pos, "article", 0, FALSE)))
        ELSE Step("ok",
                  IF ~Truthy(GetProp(article, S_title)) /\ ~Truthy(GetProp(article, S_content))
                  THEN Store(s.e, editEntry.attribute, EmptyObj) ELSE s.e,
                  s.errors, Append(s.log, Chk(pos, "article", 0, TRUE)))

CheckArticle(s, editEntry, pos) ==
    IF s.status # "ok" \/ editEntry.type # "Article" THEN s
    ELSE ArticleStep(s, editEntry, pos, Lookup(s.e, editEntry.attribute))

\* if (max_idx_to_take > 0) { entity[attribute] = Object.fromEntries(...) }
CheckPrune(s, editEntry, max_idx_to_take) ==
    IF s.status # "ok" \/ ~(max_idx_to_take > 0) THEN s
    ELSE Step("ok",
              Store(s.e, editEntry.attribute,
                    PruneList(Lookup(s.e, editEntry.attribute), max_idx_to_take)),
              s.errors, s.log)

\* The Showcase block, showcase being entity[editEntry.attribute]
ShowcaseStep(s, editEntry, pos, showcase, numPhotos) ==
    LET numRequiredFields == IF editEntry.isInstagramShowcase THEN 5 ELSE 2
        filled ==
            CountTruthy(<<GetProp(showcase, S_title), Bool(numPhotos > 0)>>)
            + (IF editEntry.isInstagramShowcase
               THEN CountTruthy(<<GetProp(showcase, S_handle), GetProp(showcase, S_url),
                                  GetProp(showcase, S_profile_photo_url)>>)
               ELSE 0)
    IN  IF editEntry.maxPhotos # 0 /\ numPhotos > editEntry.maxPhotos
        THEN Step("rejected", s.e,
                  s.errors \o <<<<"no more than maxPhotos photos", editEntry.attributeName>>>>,
                  Append(s.log, Chk(pos, "maxPhotos", 0, FALSE)))
        ELSE IF IsUndefined(showcase)
        THEN Step("threw", s.e, s.errors, Append(s.log, Chk(pos, "maxPhotos", 0, TRUE)))
        ELSE IF filled > 0 /\ filled < numRequiredFields
        THEN Step("rejected", s.e,
                  s.errors \o <<<<"Title and Images are required", editEntry.attributeName>>>>,
                  s.log \o <<Chk(pos, "maxPhotos", 0, TRUE), Chk(pos, "showcase", 0, FALSE)>>)
        ELSE Step("ok", s.e, s.errors,
                  s.log \o <<Chk(pos, "maxPhotos", 0, TRUE), Chk(pos, "showcase", 0, TRUE)>>)

CheckShowcase(s, editEntry, pos) ==
    IF s.status # "ok" \/ editEntry.type # "Showcase" THEN s
    ELSE ShowcaseStep(s, editEntry, pos, Lookup(s.e, editEntry.attribute),
                      NumPhotos(Lookup(s.e, editEntry.attribute)))

\* The body of the loop over props.editEntries, for the descriptor at pos.
\* s is the step so far: status "ok" (fell through to here), "rejected"
\* (toast and return) or "threw"; the entity; the messages sent; the checks run.
CheckEntry(s, editEntries, pos, listFieldSize, checkboxFieldValue) ==
    CheckShowcase(
        RunValidations(
            CheckPrune(
                CheckArticle(
                    CheckCheckbox(
                        CheckRequired(s, editEntries[pos], pos),
                        editEntries[pos], checkboxFieldValue),
                    editEntries[pos], pos),
                editEntries[pos],
                listFieldSize[EditEntryIdx(editEntries, editEntries[pos].attribute)]),
            editEntries[pos], pos, 1),
        editEntries[pos], pos)

\* for (const editEntry of props.editEntries) { ... }
RECURSIVE CheckLoop(_, _, _, _, _)
CheckLoop(s, editEntries, pos, listFieldSize, checkboxFieldValue) ==
    IF s.status # "ok" \/ pos > Len(editEntries) THEN s
    ELSE CheckLoop(CheckEntry(s, editEntries, pos, listFieldSize, checkboxFieldValue),
                   editEntries, pos + 1, listFieldSize, checkboxFieldValue)

\* The step the check loop starts from, after the two write loops
Written(r) == Step(IF r.threw THEN "threw" ELSE "ok", r.e, <<>>, <<>>)

\* handleSubmit up to its last statement.  status "ok": all loops ran to
\* their end and the success callback is to be scheduled.
\* The two write loops in the order the upload results were applied first
WriteLoopsMergeFirst(e, formElements, uploadPhotoMap, editEntries, listFieldSize) ==
    DecodeLoop(MergeLoop(Ok(e), uploadPhotoMap, 1, editEntries),
               formElements, 1, editEntries, listFieldSize)

\* The two write loops: the form's controls, then the upload results
WriteLoops(e, formElements, uploadPhotoMap, editEntries, listFieldSize) ==
    MergeLoop(DecodeLoop(Ok(e), formElements, 1, editEntries, listFieldSize),
              uploadPhotoMap, 1, editEntries)

\* The end of the call when a rejection leaves the entity as the write loops
\* left it, without what the checks of earlier descriptors wrote
HandedUnfinalised(s, w) ==
    [status |-> s.status, e |-> IF s.status = "rejected" THEN w.e ELSE s.e,
     errors |-> s.errors, log |-> s.log,
     handed |-> IF w.threw THEN <<>> ELSE <<w.e>>]

\* The end of the call, with the entity the write loops w handed to the checks
Handed(s, w) ==
    [status |-> s.status, e |-> s.e, errors |-> s.errors, log |-> s.log,
     handed |-> IF w.threw THEN <<>> ELSE <<w.e>>]

RunChecks(w, editEntries, listFieldSize, checkboxFieldValue) ==
    Handed(CheckLoop(Written(w), editEntries, 1, listFieldSize, checkboxFieldValue), w)

RunSubmit(e, formElements, uploadPhotoMap, editEntries, listFieldSize, checkboxFieldValue) ==
    RunChecks(WriteLoops(e, formElements, uploadPhotoMap, editEntries, listFieldSize),
              editEntries, listFieldSize, checkboxFieldValue)


(***************************************************************************)
(* State                                                                   *)
(***************************************************************************)
VARIABLES
    editEntries,        \* props.editEntries
    entityObj,          \* props.entityObj as the caller supplied it
    entity,             \* the working entity, mutated in place
    listFieldSize,      \* one size per descriptor position
    uploadPhotoMap,     \* the upload results, [name, path] in insertion order
    uploads,            \* uploads in flight: [id, fieldName, captured, after, cancelled]
    completions,        \* the completion callbacks run so far, in order
    started,            \* number of uploads started
    checkboxFieldValue, \* the one tracked checkbox state
    newPill,            \* the text in the PillList's input
    pillCall,           \* the last addPill or removePill call, if any
    isLoading,          \* LoadingSpinnerProvider's isLoading
    timers,             \* setTimeout callbacks of handleSubmit not yet run
    delivered,          \* the argument of the last props.onSubmitSuccess call, if any
    handlerThrew,       \* whether that call threw, out of the timer callback
    formElements,       \* event.target.elements of the last handleSubmit call
    outcome,            \* how the last handleSubmit call ended
    attemptErrors,      \* the toast.error messages the last handleSubmit call sent
    checkLog,           \* the checks the last handleSubmit call ran
    submitUploads,      \* uploadPhotoMap as the last handleSubmit call read it
    submitEntity,       \* the entity that call handed to the checks, if it got there
    retried,            \* whether that call followed a Rejected one
    repeated,           \* whether it repeated a committed call, input for input
    codecPath,          \* codec: the path last encoded, if any
    codecName,          \* codec: the flat name the encoder gave it
    codecDecoded,       \* codec: the decoder's analysis of that name, if made
    ruleValue,          \* rules: the value given to validateValue
    ruleType,           \* rules: the validationType given to it
    ruleResult,         \* rules: what it returned and sent, if called
    taskPhase,          \* uploadFile: where each call of it stands
    taskProgress,       \* uploadFile: the progress variable of each call
    taskCalls,          \* uploadFile: the callbacks each call has made, in order
    taskCancelled       \* uploadFile: whether cancel() was called on the task

formVars == <<editEntries, entityObj>>
uploadVars == <<uploadPhotoMap, uploads, started, completions>>
attemptVars == <<formElements, outcome, attemptErrors, checkLog, submitUploads,
                 submitEntity, retried, repeated>>
fieldVars == <<checkboxFieldValue, newPill, pillCall>>
callbackVars == <<delivered, handlerThrew>>
codecVars == <<codecPath, codecName, codecDecoded>>
ruleVars == <<ruleValue, ruleType, ruleResult>>
taskVars == <<taskPhase, taskProgress, taskCalls, taskCancelled>>
pureVars == <<codecVars, ruleVars, taskVars>>
vars == <<formVars, entity, listFieldSize, uploadVars, fieldVars, isLoading,
          timers, callbackVars, attemptVars, pureVars>>

\* Bounds of the sessions explored
MaxRows == 2
MaxPending == 1
MaxUploads == 1
V_p == <<"p">>

\* What rendering writes into the entity: the Showcase container and its
\* image_urls, the PillList default.
RenderEffect(e, editEntry) ==
    LET a == editEntry.attribute
        container == IF Truthy(Lookup(e, a)) THEN Lookup(e, a) ELSE EmptyObj
    IN  IF ~editEntry.condition THEN e
        ELSE IF editEntry.type = "Showcase"
        THEN Store(e, a, IF Truthy(GetProp(container, S_image_urls)) THEN container
                         ELSE SetProp(container, S_image_urls, EmptyArr))
        ELSE IF editEntry.type = "PillList" /\ ~Truthy(Lookup(e, a))
        THEN Store(e, a, EmptyArr)
        ELSE e

RECURSIVE RenderEffects(_, _, _)
RenderEffects(e, entries, i) ==
    IF i > Len(entries) THEN e
    ELSE RenderEffects(RenderEffect(e, entries[i]), entries, i + 1)

CodecIdle ==
    /\ codecPath = <<>>
    /\ codecName = <<>>
    /\ codecDecoded = <<>>

RulesIdle ==
    /\ ruleValue = Undefined
    /\ ruleType = "None"
    /\ ruleResult = <<>>

MaxTasks == 2

TasksIdle ==
    /\ taskPhase = [t \in 1..MaxTasks |-> "none"]
    /\ taskProgress = [t \in 1..MaxTasks |-> 0]
    /\ taskCalls = [t \in 1..MaxTasks |-> <<>>]
    /\ taskCancelled = [t \in 1..MaxTasks |-> FALSE]

PureIdle == CodecIdle /\ RulesIdle /\ TasksIdle

\* The state after the form is mounted on one of the forms in fs
Mounted(fs) ==
    /\ \E f \in fs : \E e0 \in InitialEntities(f) :
          /\ editEntries = Forms[f]
          /\ entityObj = e0
          /\ entity = RenderEffects(e0, Forms[f], 1)
          /\ listFieldSize = ListFieldSizeInit(Forms[f], e0)
    /\ uploadPhotoMap = <<>>
    /\ uploads = {}
    /\ completions = <<>>
    /\ started = 0
    /\ checkboxFieldValue = FALSE
    /\ newPill = <<>>
    /\ pillCall = <<>>
    /\ isLoading = FALSE
    /\ timers = 0
    /\ delivered = <<>>
    /\ handlerThrew = FALSE
    /\ formElements = <<>>
    /\ outcome = "None"
    /\ attemptErrors = <<>>
    /\ checkLog = <<>>
    /\ submitUploads = <<>>
    /\ submitEntity = <<>>
    /\ retried = FALSE
    /\ repeated = FALSE

Init == Mounted(1..5) /\ PureIdle

(***************************************************************************)
(* ListSizeTracker: the Add and Remove buttons of a list field             *)
(***************************************************************************)
HasListButtons(p) ==
    /\ p \in 1..Len(editEntries)
    /\ IsListType(editEntries[p].type)
    /\ editEntries[p].condition

\* Add without the limit of ten rows
GrowSizeUnclamped(size) == size + 1

GrowSize(size) == Min(10, size + 1)

\* Remove without the floor of one row
ShrinkSizeUnclamped(size) == size - 1

ShrinkSize(size) == Max(1, size - 1)

Grow(p) ==
    /\ HasListButtons(p)
    /\ listFieldSize' = [listFieldSize EXCEPT ![p] = GrowSize(listFieldSize[p])]
    /\ UNCHANGED <<formVars, entity, uploadVars, fieldVars, isLoading, timers,
                   callbackVars, attemptVars, pureVars>>

Shrink(p) ==
    /\ HasListButtons(p)
    /\ listFieldSize' = [listFieldSize EXCEPT ![p] = ShrinkSize(listFieldSize[p])]
    /\ UNCHANGED <<formVars, entity, uploadVars, fieldVars, isLoading, timers,
                   callbackVars, attemptVars, pureVars>>

(***************************************************************************)
(* Uploads: uploadFileToFirestore and the completion callback it passes    *)
(***************************************************************************)
\* The field names the rendered file inputs upload under
UploadFields ==
    { EncodeSub(editEntries[i].attribute, S_image_url) :
        i \in {j \in 1..Len(editEntries) :
                 editEntries[j].type = "Article" /\ editEntries[j].condition} }
    \cup
    { EncodeAttribute(editEntries[i].attribute) :
        i \in {j \in 1..Len(editEntries) :
                 editEntries[j].type \in {"Photo", "ProfilePhoto"}
                 /\ editEntries[j].condition} }
    \cup
    { EncodeSub(editEntries[i].attribute, S_profile_photo_url) :
        i \in {j \in 1..Len(editEntries) :
                 editEntries[j].type = "Showcase" /\ editEntries[j].condition
                 /\ editEntries[j].isInstagramShowcase} }

\* The copy of the captured map without the overwrite: an entry it holds is kept
WithUploadKeepFirst(map, fieldName, path) ==
    IF \E i \in 1..Len(map) : map[i].name = fieldName
    THEN map
    ELSE Append(map, [name |-> fieldName, path |-> path])

\* uploadPhotoMapCp[fieldName] = file.file_path on a copy of the captured map
WithUpload(map, fieldName, path) ==
    IF \E i \in 1..Len(map) : map[i].name = fieldName
    THEN [i \in 1..Len(map) |->
             IF map[i].name = fieldName THEN [name |-> fieldName, path |-> path]
             ELSE map[i]]
    ELSE Append(map, [name |-> fieldName, path |-> path])

\* file_path: URL.createObjectURL(file), a new URL for every upload
FilePath(id) == V_p \o NumToStr(id)

\* uploadFileToFirestore(fieldName, file): the completion callback it passes
\* reads the uploadPhotoMap of the render that made the call
BeginUpload(fieldName) ==
    /\ fieldName \in UploadFields
    /\ started' = started + 1
    /\ uploads' = uploads \cup {[id |-> started, fieldName |-> fieldName,
                                 captured |-> uploadPhotoMap,
                                 after |-> Len(completions), cancelled |-> FALSE]}
    /\ UNCHANGED <<formVars, entity, listFieldSize, uploadPhotoMap, completions,
                   fieldVars, isLoading, timers, callbackVars, attemptVars, pureVars>>

StartUpload(fieldName) ==
    /\ started < MaxUploads
    /\ BeginUpload(fieldName)

\* cancel() on the task of an upload in flight: a console.log
CancelUpload(u) ==
    /\ u \in uploads
    /\ ~u.cancelled
    /\ uploads' = (uploads \ {u}) \cup {[u EXCEPT !.cancelled = TRUE]}
    /\ UNCHANGED <<formVars, entity, listFieldSize, uploadPhotoMap, started, completions,
                   fieldVars, isLoading, timers, callbackVars, attemptVars, pureVars>>

CompleteUpload(u) ==
    /\ u \in uploads
    /\ uploads' = uploads \ {u}
    /\ uploadPhotoMap' = WithUpload(u.captured, u.fieldName, FilePath(u.id))
    /\ completions' = Append(completions,
                             [id |-> u.id, fieldName |-> u.fieldName,
                              path |-> FilePath(u.id), after |-> u.after,
                              cancelled |-> u.cancelled])
    /\ UNCHANGED <<formVars, entity, listFieldSize, started, fieldVars,
                   isLoading, timers, callbackVars, attemptVars, pureVars>>

(***************************************************************************)
(* Submission: handleSubmit and the callback it defers                     *)
(***************************************************************************)
Submit(typed, stale) ==
    /\ timers < MaxPending
    /\ \E fe \in { RenderFrom(editEntries, 1, listFieldSize, checkboxFieldValue, typed,
                               entity, uploadPhotoMap)
                    \o stale \o <<Unnamed("button"), Unnamed("submit")>> } :
         \E r \in { RunSubmit(entity, fe, uploadPhotoMap, editEntries, listFieldSize,
                              checkboxFieldValue) } :
            /\ formElements' = fe
            /\ submitUploads' = uploadPhotoMap
            /\ submitEntity' = r.handed
            /\ retried' = (outcome = "Rejected")
            /\ repeated' = (/\ outcome = "Scheduled"
                            /\ fe = formElements
                            /\ uploadPhotoMap = submitUploads)
            /\ entity' = r.e
            /\ attemptErrors' = r.errors
            /\ checkLog' = r.log
            /\ outcome' = CASE r.status = "ok" -> "Scheduled"
                            [] r.status = "rejected" -> "Rejected"
                            [] OTHER -> "Threw"
            /\ timers' = IF r.status = "ok" THEN timers + 1 ELSE timers
    /\ isLoading' = TRUE
    /\ UNCHANGED <<formVars, listFieldSize, uploadVars, fieldVars, callbackVars,
                   pureVars>>

\* setTimeout(() => { props.onSubmitSuccess(entity); hideLoading(); ... }, 1000)
\* The callback runs from the timer, after handleSubmit and its try block
\* have returned: when the handler throws, the statements after the call do
\* not run and nothing catches the exception.
Deliver(handlerThrows) ==
    /\ timers > 0
    /\ timers' = timers - 1
    /\ delivered' = <<entity>>
    /\ handlerThrew' = handlerThrows
    /\ isLoading' = IF handlerThrows THEN isLoading ELSE FALSE
    /\ UNCHANGED <<formVars, entity, listFieldSize, uploadVars, fieldVars,
                   attemptVars, pureVars>>

Next ==
    \/ \E p \in 1..Len(editEntries) : listFieldSize[p] < MaxRows /\ Grow(p)
    \/ \E p \in 1..Len(editEntries) : Shrink(p)
    \/ \E fieldName \in UploadFields : StartUpload(fieldName)
    \/ \E u \in uploads : CompleteUpload(u)
    \/ \E typed \in TypedChoices(editEntries) :
         \E stale \in {<<>>} \cup StaleControls(editEntries, listFieldSize) :
            Submit(typed, stale)
    \/ Deliver(FALSE)

Spec == Init /\ [][Next]_vars

\* The same session on the forms of scalar, list, address and article
\* descriptors whose descriptors are all rendered; the form with a hidden
\* Showcase is opened by Spec and the composite forms by SpecComposite.
InitChecks == Mounted({1, 2, 3, 5}) /\ PureIdle

SpecChecks == InitChecks /\ [][Next]_vars

(***************************************************************************)
(* The handlers of the Checkbox, PillList and Showcase controls, and the   *)
(* sessions on the forms that render them.                                 *)
(***************************************************************************)
MaxPills == 3

RenderedAt(p, type) ==
    /\ p \in 1..Len(editEntries)
    /\ editEntries[p].type = type
    /\ editEntries[p].condition

\* onChange of the checkbox input: setCheckboxFieldValue(e.target.checked)
ToggleCheckbox(p) ==
    /\ RenderedAt(p, "Checkbox")
    /\ checkboxFieldValue' = ~checkboxFieldValue
    /\ UNCHANGED <<formVars, entity, listFieldSize, uploadVars, newPill, pillCall, isLoading,
                   timers, callbackVars, attemptVars, pureVars>>

\* String.prototype.trim
Trim(s) ==
    LET ink == {i \in 1..Len(s) : s[i] \notin WhiteSpace}
    IN  IF ink = {} THEN <<>>
        ELSE SubSeq(s, CHOOSE i \in ink : \A j \in ink : i <= j,
                       CHOOSE i \in ink : \A j \in ink : j <= i)

\* The elements of an array value, in index order
Elements(a) == [i \in 1..a.len |-> GetProp(a, NumToStr(i - 1))]

\* What the user may type into the PillList's input
PillTexts == {<<"C">>, <<" ","C"," ">>, <<" ">>}

\* onChange of the PillList's input: setNewPill(e.target.value)
SetNewPill(p, text) ==
    /\ RenderedAt(p, "PillList")
    /\ newPill' = text
    /\ UNCHANGED <<formVars, entity, listFieldSize, uploadVars, checkboxFieldValue,
                   pillCall, isLoading, timers, callbackVars, attemptVars, pureVars>>

\* [...pills, text] with the text appended as it was typed
PushedUntrimmed(pills, text) == ArrOf(Append(Elements(pills), Str(text)))

\* [...entity[editEntry.attribute], newPill.trim()]
Pushed(pills, text) == ArrOf(Append(Elements(pills), Str(Trim(text))))

\* addPill, from the Add button or the Enter key
AddPill(p) ==
    /\ RenderedAt(p, "PillList")
    /\ IF Trim(newPill) # <<>>
       THEN /\ entity' = Store(entity, editEntries[p].attribute,
                               Pushed(entity[editEntries[p].attribute], newPill))
            /\ newPill' = <<>>
       ELSE UNCHANGED <<entity, newPill>>
    /\ pillCall' = <<[op |-> "addPill", index |-> 0]>>
    /\ UNCHANGED <<formVars, listFieldSize, uploadVars, checkboxFieldValue, isLoading,
                   timers, callbackVars, attemptVars, pureVars>>

\* updatePills.splice(index, 1) taking the element after the index
SplicedNext(pills, index) ==
    ArrOf([i \in 1..(pills.len - 1) |->
              Elements(pills)[IF i <= index + 1 THEN i ELSE i + 1]])

\* const updatePills = [...pills]; updatePills.splice(index, 1)
Spliced(pills, index) ==
    ArrOf([i \in 1..(pills.len - 1) |->
              Elements(pills)[IF i <= index THEN i ELSE i + 1]])

\* removePill(index), from the X button of the pill at that index
RemovePill(p, index) ==
    /\ RenderedAt(p, "PillList")
    /\ index \in 0..(entity[editEntries[p].attribute].len - 1)
    /\ entity' = Store(entity, editEntries[p].attribute,
                       Spliced(entity[editEntries[p].attribute], index))
    /\ pillCall' = <<[op |-> "removePill", index |-> index]>>
    /\ UNCHANGED <<formVars, listFieldSize, uploadVars, checkboxFieldValue, newPill, isLoading,
                   timers, callbackVars, attemptVars, pureVars>>

\* uponFileChange of the Showcase's FileUpload: the chosen files replace
\* image_urls
SelectFiles(p, n) ==
    /\ RenderedAt(p, "Showcase")
    /\ Truthy(Lookup(entity, editEntries[p].attribute))
    /\ entity' = Store(entity, editEntries[p].attribute,
                       SetProp(entity[editEntries[p].attribute], S_image_urls,
                               ArrOf([i \in 1..n |-> FileObject])))
    /\ UNCHANGED <<formVars, listFieldSize, uploadVars, fieldVars, isLoading,
                   timers, callbackVars, attemptVars, pureVars>>

InitFields == Mounted(7..10) /\ PureIdle

NextFields ==
    \/ \E p \in 1..Len(editEntries) : ToggleCheckbox(p)
    \/ \E p \in 1..Len(editEntries) : \E text \in PillTexts : SetNewPill(p, text)
    \/ \E p \in 1..Len(editEntries) :
         /\ RenderedAt(p, "PillList")
         /\ entity[editEntries[p].attribute].len < MaxPills
         /\ AddPill(p)
    \/ \E p \in 1..Len(editEntries) : \E index \in 0..(MaxPills - 1) : RemovePill(p, index)
    \/ \E p \in 1..Len(editEntries) : SelectFiles(p, 1)
    \/ \E fieldName \in UploadFields : StartUpload(fieldName)
    \/ \E u \in uploads : CompleteUpload(u)
    \/ \E typed \in TypedChoices(editEntries) : Submit(typed, <<>>)
    \/ \E handlerThrows \in BOOLEAN : Deliver(handlerThrows)

SpecFields == InitFields /\ [][NextFields]_vars

(***************************************************************************)
(* The composite fields alone: a Showcase, an Instagram Showcase and an    *)
(* Article, with their file choosers and uploads                           *)
(***************************************************************************)
InitComposite == Mounted(10..12) /\ PureIdle

NextComposite ==
    \/ \E p \in 1..Len(editEntries) : SelectFiles(p, 1)
    \/ \E fieldName \in UploadFields : StartUpload(fieldName)
    \/ \E u \in uploads : CompleteUpload(u)
    \/ \E typed \in TypedChoices(editEntries) : Submit(typed, <<>>)
    \/ Deliver(FALSE)

SpecComposite == InitComposite /\ [][NextComposite]_vars

(***************************************************************************)
(* Uploads that overlap: up to MaxOverlap uploads started from the photo   *)
(* fields of a form, cancelled and completed in any order, and submissions *)
(***************************************************************************)
MaxOverlap == 2

InitUploads == Mounted({9, 13}) /\ PureIdle

NextUploads ==
    \/ \E fieldName \in UploadFields : started < MaxOverlap /\ BeginUpload(fieldName)
    \/ \E u \in uploads : CancelUpload(u)
    \/ \E u \in uploads : CompleteUpload(u)
    \/ \E typed \in TypedChoices(editEntries) : Submit(typed, <<>>)
    \/ Deliver(FALSE)

SpecUploads == InitUploads /\ [][NextUploads]_vars

(***************************************************************************)
(* ListSizeTracker alone: the sizes under any sequence of Add and Remove   *)
(***************************************************************************)
InitList == Mounted({2, 3, 6}) /\ PureIdle

NextList ==
    \/ \E p \in 1..Len(editEntries) : Grow(p)
    \/ \E p \in 1..Len(editEntries) : Shrink(p)

SpecList == InitList /\ [][NextList]_vars

(***************************************************************************)
(* FieldNameCodec alone: a path is encoded as the render function names    *)
(* its input, then the name is analysed as handleSubmit analyses it.       *)
(***************************************************************************)
MaxIndex == 11

CodecSubfields == {S_title, S_content, S_city, S_image_url}

Path(kind, attribute, subfield, index, position) ==
    [kind |-> kind, attribute |-> attribute, subfield |-> subfield,
     index |-> index, position |-> position]

\* The paths of the declared attributes
CodecPaths ==
    LET attributes == UpdateTargets(editEntries)
    IN  { Path("attribute", a, <<>>, 0, 0) : a \in attributes }
        \cup { Path("sub", a, s, 0, 0) : a \in attributes, s \in CodecSubfields }
        \cup { Path("single", a, <<>>, i, 0) : a \in attributes, i \in 0..MaxIndex }
        \cup { Path("paired", a, <<>>, i, q) :
                 a \in attributes, i \in 0..MaxIndex, q \in {0, 1} }

\* The name attribute the render function gives the input of a path
Encode(path) ==
    CASE path.kind = "attribute" -> EncodeAttribute(path.attribute)
      [] path.kind = "sub" -> EncodeSub(path.attribute, path.subfield)
      [] path.kind = "single" -> EncodeSingle(path.attribute, path.index)
      [] path.kind = "paired" -> EncodePaired(path.attribute, path.index, path.position)

\* The decoder's analysis in the terms of a path: the index as parseInt
\* gave it, the paired position as the property key written
Decoded(d) ==
    [kind |-> d.kind,
     attribute |-> d.field,
     subfield |-> IF d.kind = "sub" THEN d.sub ELSE <<>>,
     index |-> IF d.kind \in {"single", "paired"} THEN d.idx ELSE [nan |-> FALSE, n |-> 0],
     position |-> IF d.kind = "paired" THEN d.subsub ELSE <<"0">>]

\* A path in the same terms
Expected(path) ==
    [path EXCEPT !.index = [nan |-> FALSE, n |-> path.index],
                 !.position = NumToStr(path.position)]

CodecEncode(path) ==
    /\ codecPath' = <<path>>
    /\ codecName' = Encode(path)
    /\ codecDecoded' = <<>>
    /\ UNCHANGED <<formVars, entity, listFieldSize, uploadVars, fieldVars,
                   isLoading, timers, callbackVars, attemptVars, ruleVars, taskVars>>

CodecDecode ==
    /\ codecPath # <<>>
    /\ codecDecoded = <<>>
    /\ codecDecoded' = <<Decode(codecName, UpdateTargets(editEntries))>>
    /\ UNCHANGED <<formVars, entity, listFieldSize, uploadVars, fieldVars,
                   isLoading, timers, callbackVars, attemptVars, codecPath, codecName, ruleVars,
                   taskVars>>

NextCodec ==
    \/ \E path \in CodecPaths : CodecEncode(path)
    \/ CodecDecode

SpecCodec == Init /\ [][NextCodec]_vars

(***************************************************************************)
(* ValidationEngine alone: validateValue is called once on a value and a   *)
(* rule drawn from the cases around each rule's limits.                    *)
(***************************************************************************)
MaxOver == 1

Rep(c, n) == [i \in 1..n |-> c]

LengthLimits == {30, 50, 100, 200, 300, 400}

LengthRules ==
    {"TextLengthBelow30", "TextLengthBelow50", "TextLengthBelow100",
     "TextLengthBelow200", "TextLengthBelow300", "TextLengthBelow400"}

\* Strings of a length at, just below and just above each limit
LongStrings ==
    { Rep("a", n + d) : n \in LengthLimits, d \in (0 - MaxOver)..MaxOver }

PriceStrings ==
    { <<"9","9","9","9">>, <<"1","0","0","0","0">>, <<"0">>, <<"1",".","2","3","4">>,
      <<"1",".","2","3">>, <<"1",".","2">>, <<"1",".">>, <<".","5">>, <<".">>,
      <<"0",".","0","0">>, <<"0",".","0","1">>, <<"0",".">>, <<".","0">>,
      <<"9","9","9","9",".","0","0">>, <<"9","9","9","9",".","0","1">>,
      <<"9","9","9","8",".","9","9">>, <<"0","0","0","0","5">>,
      <<"1",".","2",".","3">>, <<"1","a">>, <<" ","1">>, <<"-","1">>, <<"1",LF>>,
      <<"1","e","3">>, <<"1">>, <<"a">>,
      Rep("0", 99) \o <<"1">>, Rep("0", 100) \o <<"1">>, <<"1">> \o Rep("0", 99),
      Rep("0", 96) \o <<".","0","1">>, Rep("0", 96) \o <<".","0","0","1">> }

RuleValues ==
    { Str(s) : s \in {<<>>} \cup LongStrings \cup PriceStrings }
    \cup { Undefined, Bool(TRUE), Bool(FALSE), EmptyObj, EmptyArr,
           ArrOf([i \in 1..(30 + MaxOver) |-> Str(<<"a">>)]) }

RuleTypes == LengthRules \cup {"Price", "Number"}

InitRules ==
    /\ Mounted({1})
    /\ CodecIdle
    /\ TasksIdle
    /\ ruleValue \in RuleValues
    /\ ruleType \in RuleTypes
    /\ ruleResult = <<>>

ApplyRule ==
    /\ ruleResult = <<>>
    /\ ruleResult' = <<validateValue(ruleValue, "Field", ruleType)>>
    /\ UNCHANGED <<formVars, entity, listFieldSize, uploadVars, fieldVars, isLoading,
                   timers, callbackVars, attemptVars, codecVars, ruleValue, ruleType,
                   taskVars>>

NextRules == ApplyRule

SpecRules == InitRules /\ [][NextRules]_vars

(***************************************************************************)
(* uploadFile alone: the FileReader's load event, the interval timer it    *)
(* starts and the callbacks the timer makes, for MaxTasks calls            *)
(***************************************************************************)
Progress(pc) == [cb |-> "onProgress", progress |-> pc]
Complete == [cb |-> "onComplete", progress |-> 0]

\* The interval stopping one step late
IntervalDoneAbove(progress) == progress > 100

\* if (progress >= 100) { clearInterval(progressInterval); ... }
IntervalDone(progress) == progress >= 100

\* uploadFile(...): reader.readAsDataURL(file), the task is returned
UploadFile(t) ==
    /\ taskPhase[t] = "none"
    /\ taskPhase' = [taskPhase EXCEPT ![t] = "reading"]
    /\ UNCHANGED <<formVars, entity, listFieldSize, uploadVars, fieldVars, isLoading,
                   timers, callbackVars, attemptVars, codecVars, ruleVars,
                   taskProgress, taskCalls, taskCancelled>>

\* reader.onload: let progress = 0; setInterval(..., 200)
ReaderLoad(t) ==
    /\ taskPhase[t] = "reading"
    /\ taskPhase' = [taskPhase EXCEPT ![t] = "interval"]
    /\ taskProgress' = [taskProgress EXCEPT ![t] = 0]
    /\ UNCHANGED <<formVars, entity, listFieldSize, uploadVars, fieldVars, isLoading,
                   timers, callbackVars, attemptVars, codecVars, ruleVars,
                   taskCalls, taskCancelled>>

\* One run of the interval's callback
Tick(t) ==
    /\ taskPhase[t] = "interval"
    /\ LET progress == taskProgress[t] + 10
       IN  /\ taskProgress' = [taskProgress EXCEPT ![t] = progress]
           /\ IF IntervalDone(progress)
              THEN /\ taskPhase' = [taskPhase EXCEPT ![t] = "cleared"]
                   /\ taskCalls' = [taskCalls EXCEPT
                                      ![t] = @ \o <<Progress(progress), Complete>>]
              ELSE /\ taskPhase' = taskPhase
                   /\ taskCalls' = [taskCalls EXCEPT ![t] = Append(@, Progress(progress))]
    /\ UNCHANGED <<formVars, entity, listFieldSize, uploadVars, fieldVars, isLoading,
                   timers, callbackVars, attemptVars, codecVars, ruleVars, taskCancelled>>

\* task.cancel(): console.log('Upload cancelled')
Cancel(t) ==
    /\ taskPhase[t] # "none"
    /\ ~taskCancelled[t]
    /\ taskCancelled' = [taskCancelled EXCEPT ![t] = TRUE]
    /\ UNCHANGED <<formVars, entity, listFieldSize, uploadVars, fieldVars, isLoading,
                   timers, callbackVars, attemptVars, codecVars, ruleVars,
                   taskPhase, taskProgress, taskCalls>>

InitTasks == Mounted({1}) /\ PureIdle

NextTasks ==
    \/ \E t \in 1..MaxTasks : UploadFile(t)
    \/ \E t \in 1..MaxTasks : ReaderLoad(t)
    \/ \E t \in 1..MaxTasks : Tick(t)
    \/ \E t \in 1..MaxTasks : Cancel(t)

\* The browser fires the load event of a started read and runs the callback
\* of an interval that was not cleared
SpecTasks ==
    /\ InitTasks
    /\ [][NextTasks]_vars
    /\ \A t \in 1..MaxTasks : WF_vars(ReaderLoad(t)) /\ WF_vars(Tick(t))

(***************************************************************************)
(* Properties                                                              *)
(***************************************************************************)
\* The place of a check in the order handleSubmit runs them: descriptors in
\* declared order; within one, required, Article, the rules in the order of
\* validations, maxPhotos, Showcase.
Rank(c) ==
    c.pos * 1000 + (CASE c.check = "required" -> 0
                      [] c.check = "article" -> 1
                      [] c.check = "rule" -> 1 + c.rule
                      [] c.check = "maxPhotos" -> 500
                      [] c.check = "showcase" -> 501)

Positions == 1..Len(editEntries)
ListPositions == {p \in Positions : IsListType(editEntries[p].type)}
Logged(c) == \E i \in 1..Len(checkLog) : checkLog[i] = c
Attempted == outcome # "None"

\* The working entity and the entity the form was opened on
Entities == {entity, entityObj}

\* The analysis of a control's name against the form's declared attributes
PathOf(target) == Decode(target.name, UpdateTargets(editEntries))

\* The controls of the last submission
Controls == {formElements[i] : i \in 1..Len(formElements)}

\* C1: fail-fast validation.  The checks of a submission run in the declared
\* order of the descriptors and, within a descriptor, of its validations; none
\* is skipped on the way; only the last check run can be a failing one; a
\* failing check ends the submission Rejected with exactly one error message
\* and without scheduling the success handler; a submission that schedules
\* the success handler ran every rule and sent no message.
C1_FailFast ==
    LET n == Len(checkLog)
    IN  /\ \A i \in 1..(n - 1) :
              checkLog[i].ok /\ Rank(checkLog[i]) < Rank(checkLog[i + 1])
        /\ (n > 0 /\ ~checkLog[n].ok) <=> outcome = "Rejected"
        /\ outcome = "Rejected" => Len(attemptErrors) = 1
        /\ outcome = "Scheduled" => attemptErrors = <<>>
        /\ \A p \in Positions : \A j \in 1..Len(editEntries[p].validations) :
              (\/ outcome = "Scheduled"
               \/ n > 0 /\ Rank(Chk(p, "rule", j, TRUE)) < Rank(checkLog[n]))
              => Logged(Chk(p, "rule", j, TRUE))

\* A submission rejected by the second rule of the second descriptor, after
\* the three checks before it passed
C1_RejectedAtSecondRule ==
    /\ outcome = "Rejected"
    /\ Len(checkLog) = 4
    /\ checkLog[4] = Chk(2, "rule", 2, FALSE)
    /\ checkLog[3] = Chk(2, "rule", 1, TRUE)
    /\ Len(attemptErrors) = 1
    /\ delivered = <<>>

\* C2: a submission in which no check fails schedules the success handler
\* and sends no error message.
C2_NoFailureCommits ==
    (Attempted /\ \A i \in 1..Len(checkLog) : checkLog[i].ok)
    => (outcome = "Scheduled" /\ attemptErrors = <<>>)

\* C3: a submission ends Committed (the success handler scheduled) or
\* Rejected, never in any other way.
C3_CommittedOrRejected == outcome \in {"None", "Scheduled", "Rejected"}

\* C4: codec round trip.  For a path of a declared attribute whose attribute
\* and subfield hold no underscore, the analysis of the name the encoder gives
\* it has the same kind, attribute, subfield, index and paired position.
C4_RoundTrip ==
    (/\ codecDecoded # <<>>
     /\ ~Includes(codecPath[1].attribute, <<US>>)
     /\ ~Includes(codecPath[1].subfield, <<US>>))
    => Decoded(codecDecoded[1]) = Expected(codecPath[1])

\* The paired path of a two-digit index and position 1, decoded to itself
C4_PairedRowTenDecoded ==
    /\ codecDecoded # <<>>
    /\ codecPath[1].kind = "paired"
    /\ codecPath[1].index = 10
    /\ codecPath[1].position = 1
    /\ codecDecoded[1].kind = "paired"
    /\ codecDecoded[1].idx = [nan |-> FALSE, n |-> 10]
    /\ codecDecoded[1].subsub = <<"1">>
    /\ codecDecoded[1].field = codecPath[1].attribute

\* C5: the name of a subfield of any declared attribute, one holding an
\* underscore included, decodes to that attribute and that subfield.
C5_DeclaredAttributeDecoded ==
    (codecDecoded # <<>> /\ codecPath[1].kind = "sub")
    => Decoded(codecDecoded[1]) = Expected(codecPath[1])

\* C6: a control whose name is empty or decodes to no declared attribute is
\* ignored: processing it leaves the entity as it is and throws nothing.
C6_UndecodedIgnored ==
    \A target \in Controls :
        (target.name = <<>> \/ PathOf(target).kind = "none")
        => \A e \in Entities :
              DecodeElement(e, target, editEntries, listFieldSize) = Ok(e)

\* A submission that held a named control with a value, decoding to no
\* declared attribute, and was not rejected
C6_NamedUndecodedSubmitted ==
    /\ outcome = "Scheduled"
    /\ \E target \in Controls :
          /\ target.name # <<>>
          /\ target.value # <<>>
          /\ PathOf(target).kind = "none"
          /\ DecodeElement(entityObj, target, editEntries, listFieldSize) = Ok(entityObj)

C8_OutOfBoundsDiscarded ==
    \A target \in Controls :
        (/\ PathOf(target).kind \in {"single", "paired"}
         /\ ~PathOf(target).idx.nan
         /\ PathOf(target).idx.n
              >= listFieldSize[EditEntryIdx(editEntries, PathOf(target).field)])
        => \A e \in Entities :
              DecodeElement(e, target, editEntries, listFieldSize) = Ok(e)

\* A submission that held the row just past the end of a list, with a
\* value, was not rejected, and left no row at that index
C8_StaleRowSubmitted ==
    /\ outcome = "Scheduled"
    /\ \E target \in Controls :
          /\ PathOf(target).kind \in {"single", "paired"}
          /\ target.value # <<>>
          /\ PathOf(target).idx.n
               = listFieldSize[EditEntryIdx(editEntries, PathOf(target).field)]
          /\ IsUndefined(GetProp(Lookup(entity, PathOf(target).field),
                                 IndexKey(PathOf(target).idx)))

\* C9: pruning keeps a row exactly when its index is below the size of the
\* descriptor and, for a DoubleTextList only, the row holds both paired
\* positions; every TextList row below the size is kept.
C9_PruneKeepsRightRows ==
    \A p \in ListPositions : \A e \in Entities :
        LET value == Lookup(e, editEntries[p].attribute)
            size == listFieldSize[p]
        IN  (size > 0 /\ IsObject(value))
            => DOMAIN PruneList(value, size).o
               = { k \in DOMAIN value.o :
                     /\ ~ParseInt(k).nan
                     /\ ParseInt(k).n < size
                     /\ editEntries[p].type = "DoubleTextList"
                        => (/\ IsObject(value.o[k])
                            /\ HasProp(value.o[k], <<"0">>)
                            /\ HasProp(value.o[k], <<"1">>)) }

\* C10: after the pruning of a committed submission the rows of a list
\* descriptor occupy the positions 0..k-1.
C10_DenseAfterPrune ==
    outcome = "Scheduled"
    => \A p \in ListPositions :
          LET value == Lookup(entity, editEntries[p].attribute)
          IN  (listFieldSize[p] > 0 /\ IsObject(value))
              => DOMAIN value.o = {NumToStr(i) : i \in 0..(NumKeys(value) - 1)}

(***************************************************************************)
(* Claims on the rules of validateValue                                    *)
(***************************************************************************)
\* The result of the one call made, and whether the rule failed
Applied(rule) == ruleResult # <<>> /\ ruleType = rule
RuleFailed == ~ruleResult[1].ok

LengthRuleOf(n) ==
    CASE n = 30 -> "TextLengthBelow30"
      [] n = 50 -> "TextLengthBelow50"
      [] n = 100 -> "TextLengthBelow100"
      [] n = 200 -> "TextLengthBelow200"
      [] n = 300 -> "TextLengthBelow300"
      [] n = 400 -> "TextLengthBelow400"

\* C18: TextLengthBelowN boundary.  For each N in {30, 50, 100, 200, 300, 400}
\* the rule TextLengthBelowN fails exactly when the value is a string of a
\* length strictly greater than N: a string of length N passes, one of length
\* N + 1 fails, an absent or non-string value passes.
C18_LengthBoundary ==
    \A n \in LengthLimits :
        Applied(LengthRuleOf(n)) =>
            /\ RuleFailed <=> (IsString(ruleValue) /\ Len(ruleValue.s) > n)
            /\ ruleValue = Str(Rep("a", n)) => ~RuleFailed
            /\ ruleValue = Str(Rep("a", n + 1)) => RuleFailed
            /\ ~IsString(ruleValue) => ~RuleFailed

\* C18 witness: TextLengthBelow400 was applied to a string of 401 characters
\* and failed
C18_OverLimitFailed ==
    /\ Applied("TextLengthBelow400")
    /\ ruleValue = Str(Rep("a", 401))
    /\ RuleFailed

\* The digits before and after the decimal point of a decimal numeral
Whole(s) == StripZeros(Split(s, ".")[1])
Fraction(s) == IF Len(Split(s, ".")) > 1 THEN Split(s, ".")[2] ELSE <<>>

\* Digits with at most one decimal point
DecimalShape(s) ==
    /\ \A i \in 1..Len(s) : s[i] \in DigitSet \cup {"."}
    /\ \A i, j \in 1..Len(s) : (s[i] = "." /\ s[j] = ".") => i = j

\* The numeric value in hundredths, of a numeral with some digit, at most
\* four whole digits and at most two after the point
Hundredths(s) ==
    DigitsValue(Whole(s), 1, 0) * 100
    + DigitsValue(Fraction(s) \o Rep("0", 2 - Len(Fraction(s))), 1, 0)

HasDigit(s) == \E i \in 1..Len(s) : s[i] \in DigitSet

\* The failure condition of the Price rule as the claim words it
PriceFails(s) ==
    \/ Len(s) > 100
    \/ ~DecimalShape(s)
    \/ Len(Fraction(s)) > 2
    \/ /\ HasDigit(s)
       /\ \/ Len(Whole(s)) > 4
          \/ Hundredths(s) <= 0
          \/ Hundredths(s) > 999900

\* C19: Price rule.  For a non-empty string the rule fails exactly when the
\* string is longer than 100 characters, or is not digits with at most one
\* decimal point, or has more than 2 digits after the point, or its numeric
\* value is <= 0 or > 9999; "9999" passes, "10000", "0" and "1.234" fail; an
\* empty or non-string value passes.
C19_PriceRule ==
    Applied("Price") =>
        /\ (IsString(ruleValue) /\ ruleValue.s # <<>>)
              => (RuleFailed <=> PriceFails(ruleValue.s))
        /\ ~(IsString(ruleValue) /\ ruleValue.s # <<>>) => ~RuleFailed
        /\ ruleValue = Str(<<"9","9","9","9">>) => ~RuleFailed
        /\ ruleValue \in {Str(<<"1","0","0","0","0">>), Str(<<"0">>),
                          Str(<<"1",".","2","3","4">>)} => RuleFailed

\* C19 witness: Price was applied to "9999" and passed
C19_TopPricePassed ==
    /\ Applied("Price")
    /\ ruleValue = Str(<<"9","9","9","9">>)
    /\ ~RuleFailed

(***************************************************************************)
(* Claims on the sessions of a form                                        *)
(***************************************************************************)
\* The value an entity holds at the path a control or upload name targets
ValueAt(e, path) ==
    IF path.kind = "attribute" THEN Lookup(e, path.field)
    ELSE GetProp(Lookup(e, path.field), path.sub)

\* The upload results the last handleSubmit call read
SubmitUploads == {submitUploads[i] : i \in 1..Len(submitUploads)}

\* A control and an upload result of the last call that target the same
\* path: an attribute, or an attribute and a subfield, is targeted by one
\* name only
SamePath(c, u) ==
    /\ c.name = u.name
    /\ PathOf(c).kind \in {"attribute", "sub"}

\* C11: upload results are applied after all raw form values.  Whenever a raw
\* form value and an upload result present at submit time target the same
\* path, the value at that path in the entity handed to validation is the
\* upload's stored path.
C11_UploadWins ==
    submitEntity # <<>> =>
        \A c \in Controls : \A u \in SubmitUploads :
            SamePath(c, u) => ValueAt(submitEntity[1], PathOf(c)) = Str(u.path)

\* C11 witness: a submission whose form held a typed value under the name of
\* an upload result handed the upload's path to the checks
C11_UploadOverTyped ==
    /\ submitEntity # <<>>
    /\ \E c \in Controls : \E u \in SubmitUploads :
          /\ SamePath(c, u)
          /\ c.value \notin {<<>>, u.path}
          /\ ValueAt(submitEntity[1], PathOf(c)) = Str(u.path)

\* A value that is not empty: a string with some character, a sequence with
\* some element, true, or an object
NonEmpty(v) ==
    CASE IsUndefined(v) -> FALSE
      [] IsString(v) -> v.s # <<>>
      [] v.t = "boolean" -> v.b
      [] v.arr -> v.len > 0
      [] OTHER -> TRUE

PositionsOf(type) == {p \in Positions : editEntries[p].type = type}

\* The number of the given subfields that are not empty in a composite value
Filled(composite, subfields) ==
    Cardinality({k \in subfields : NonEmpty(GetProp(composite, k))})

\* C12: Article completeness.  With filled the number of non-empty values
\* among title, content, image_url, subtitle, button_link and mandatoryFilled
\* among title, content, image_url, the Article check rejects if and only if
\* filled > 0 and mandatoryFilled < 3; when it passes and neither title nor
\* content is present, the attribute's value is replaced by the empty object.
C12_ArticleCompleteness ==
    \A p \in PositionsOf("Article") :
        (\E ok \in BOOLEAN : Logged(Chk(p, "article", 0, ok))) =>
            LET article == Lookup(submitEntity[1], editEntries[p].attribute)
                filled == Filled(article, {S_title, S_content, S_image_url,
                                           S_subtitle, S_button_link})
                mandatoryFilled == Filled(article, {S_title, S_content, S_image_url})
            IN  /\ Logged(Chk(p, "article", 0, FALSE))
                      <=> (filled > 0 /\ mandatoryFilled < 3)
                /\ (/\ Logged(Chk(p, "article", 0, TRUE))
                    /\ ~NonEmpty(GetProp(article, S_title))
                    /\ ~NonEmpty(GetProp(article, S_content)))
                      => Lookup(entity, editEntries[p].attribute) = EmptyObj

\* The image entries of a showcase whose state is not Deleted; an entry that
\* carries no state is among them
LivePhotos(showcase) ==
    LET image_urls == GetProp(showcase, S_image_urls)
    IN  IF IsObject(image_urls)
        THEN {k \in DOMAIN image_urls.o :
                GetProp(image_urls.o[k], S_state) # Str(S_deleted)}
        ELSE {}

\* C13: Showcase completeness.  With numPhotos the number of image entries
\* whose state is not Deleted (an entry without a state field counts),
\* requiredCount 5 for an Instagram showcase and 2 otherwise, and filled the
\* count of [title present, numPhotos > 0] plus, for Instagram only, of
\* [handle, url, profile_photo_url present], the Showcase completeness check
\* rejects if and only if 0 < filled < requiredCount.
C13_ShowcaseCompleteness ==
    \A p \in PositionsOf("Showcase") :
        (\E ok \in BOOLEAN : Logged(Chk(p, "showcase", 0, ok))) =>
            LET showcase == Lookup(submitEntity[1], editEntries[p].attribute)
                numPhotos == Cardinality(LivePhotos(showcase))
                requiredCount == IF editEntries[p].isInstagramShowcase THEN 5 ELSE 2
                filled == Filled(showcase, {S_title})
                          + (IF numPhotos > 0 THEN 1 ELSE 0)
                          + (IF editEntries[p].isInstagramShowcase
                             THEN Filled(showcase, {S_handle, S_url, S_profile_photo_url})
                             ELSE 0)
            IN  Logged(Chk(p, "showcase", 0, FALSE))
                    <=> (0 < filled /\ filled < requiredCount)

\* A session on the form of App.tsx, and the pills an entity holds, as a
\* plain sequence of texts
PillSession == editEntries = PillForm
Pills(e) == [i \in 1..e[A_pills].len |-> e[A_pills].o[NumToStr(i - 1)].s]

\* A step that changes the pills is an add of the trimmed, non-blank text at
\* the end or a removal of exactly the element at the index given; a delivery
\* hands over the pills as they are
PillStep ==
    /\ Pills(entity') # Pills(entity) =>
          \/ /\ pillCall'[1].op = "addPill"
             /\ Trim(newPill) # <<>>
             /\ Pills(entity') = Append(Pills(entity), Trim(newPill))
          \/ /\ pillCall'[1].op = "removePill"
             /\ pillCall'[1].index \in 0..(Len(Pills(entity)) - 1)
             /\ Pills(entity') = SubSeq(Pills(entity), 1, pillCall'[1].index)
                                 \o SubSeq(Pills(entity), pillCall'[1].index + 2,
                                           Len(Pills(entity)))
    /\ timers' < timers => /\ delivered' # <<>>
                           /\ Pills(delivered'[1]) = Pills(entity)

\* C14: PillList editing.  From any initial pill sequence, after any sequence
\* of add-pill actions (each appends the trimmed text at the end, blank text
\* adds nothing) and remove-pill actions (each removes exactly the element at
\* the given index and keeps the order of the others), a submission is
\* committed without any validation failure and the entity delivered holds
\* exactly the resulting sequence.
C14_PillEditing ==
    /\ [](PillSession /\ Attempted => outcome = "Scheduled" /\ attemptErrors = <<>>)
    /\ [][PillSession => PillStep]_vars

\* C14 witness: opened on ["A", "B"], after add "C" and remove index 0 the
\* entity delivered holds ["B", "C"]
C14_DeliveredBC ==
    /\ PillSession
    /\ A_pills \in DOMAIN entityObj
    /\ Pills(entityObj) = <<<<"A">>, <<"B">>>>
    /\ pillCall = <<[op |-> "removePill", index |-> 0]>>
    /\ delivered # <<>>
    /\ Pills(delivered[1]) = <<<<"B">>, <<"C">>>>

\* C15: a descriptor whose condition is false does not participate in the
\* submission: none of its checks is run, so it cannot cause a rejection,
\* its list is not pruned and its attribute in the entity is left unchanged.
C15_HiddenDescriptorSkipped ==
    \A p \in Positions :
        ~editEntries[p].condition =>
            /\ \A i \in 1..Len(checkLog) : checkLog[i].pos # p
            /\ Lookup(entity, editEntries[p].attribute)
                   = Lookup(entityObj, editEntries[p].attribute)

\* C16: if the caller's success handler throws when it is invoked after a
\* successful validation, the exception is caught, the loading indicator is
\* cleared, and no error message is sent to the error sink.
C16_HandlerThrowCleared ==
    [][(timers' < timers /\ handlerThrew') =>
          (~isLoading' /\ attemptErrors' = attemptErrors)]_vars

\* The position and the kind of the check that rejected the last call
FailedCheck == checkLog[Len(checkLog)]

\* Whether the check loop had passed the Checkbox assignment of position p
\* when the call was rejected: the assignment follows the required check
Finalised(p) ==
    p < FailedCheck.pos \/ (p = FailedCheck.pos /\ FailedCheck.check # "required")

\* After a rejection the attribute of position p holds what the attempt
\* wrote: the tracked checkbox state (the one the rendered control showed)
\* where the check loop assigned it, otherwise the value the two write loops
\* left
Kept(p) ==
    LET a == editEntries[p].attribute
    IN  IF editEntries[p].type = "Checkbox" /\ Finalised(p)
        THEN \E c \in Controls : /\ c.type = "checkbox"
                                 /\ c.name = EncodeAttribute(a)
                                 /\ Lookup(entity, a) = Bool(c.checked)
        ELSE (p >= FailedCheck.pos \/ editEntries[p].type \in {"Text", "Photo", "PillList"})
                => Lookup(entity, a) = Lookup(submitEntity[1], a)

\* A text control that alone targets its attribute in the last call
SoleText(c) ==
    /\ c.type = "text"
    /\ PathOf(c).kind = "attribute"
    /\ \A d \in Controls : d.name = c.name => d = c
    /\ \A u \in SubmitUploads : u.name # c.name

\* What holds right after a handleSubmit call
RejectionKeepsWrites ==
    /\ outcome = "Rejected" =>
          /\ submitEntity # <<>>
          /\ \A p \in Positions : Kept(p)
    /\ (retried /\ submitEntity # <<>>) =>
          \A c \in Controls : SoleText(c) => Lookup(submitEntity[1], c.name) = Str(c.value)

\* C17: rejection keeps the user's input and allows a retry.  When a
\* submission ends Rejected, every write applied to the working entity during
\* that attempt (decoded values, merged uploads, earlier descriptors'
\* finalisation) is still present; a following submission starts again from
\* the first decoding step against that entity and can end committed.
C17_RejectionKeepsWrites ==
    [][attemptVars' # attemptVars => RejectionKeepsWrites']_vars

\* C17 witness: a submission that followed a rejected one decoded a corrected
\* value and scheduled the success handler
C17_RetryCommitted ==
    /\ retried
    /\ outcome = "Scheduled"
    /\ \E c \in Controls : SoleText(c) /\ c.value # <<>>
                           /\ Lookup(entity, c.name) = Str(c.value)

\* C20: Checkbox fields are never decoded from the raw input set.  The raw
\* value of a checkbox control is not written to the working entity at any
\* point of a submission, so neither the required check nor a Rejected entity
\* sees it, and in every committed entity each Checkbox attribute equals the
\* single tracked boolean checkbox state.
C20_CheckboxNotDecoded ==
    \A p \in PositionsOf("Checkbox") :
        LET a == editEntries[p].attribute
        IN  /\ submitEntity # <<>> => Lookup(submitEntity[1], a) # Str(S_on)
            /\ outcome = "Rejected" => Lookup(entity, a) # Str(S_on)
            /\ delivered # <<>> => Lookup(delivered[1], a).t = "boolean"

\* What one Add or Remove click at position p does: the size at p becomes
\* the given one, and the sizes at the other positions, the working entity
\* and the upload map stay as they were
SizeStep(p, size) ==
    /\ listFieldSize' = [listFieldSize EXCEPT ![p] = size]
    /\ \A q \in Positions \ {p} : listFieldSize'[q] = listFieldSize[q]
    /\ entity' = entity
    /\ uploadPhotoMap' = uploadPhotoMap

\* The effect and the frame of Add and Remove, for any size before the click
GrowShrinkEffect(p) ==
    /\ Grow(p) =>
         SizeStep(p, IF listFieldSize[p] + 1 < 10 THEN listFieldSize[p] + 1 ELSE 10)
    /\ Shrink(p) =>
         SizeStep(p, IF listFieldSize[p] - 1 > 1 THEN listFieldSize[p] - 1 ELSE 1)

\* C21 as stated: grow at position p sets size[p] to min(size[p]+1, 10) and
\* shrink at position p sets size[p] to max(size[p]-1, 1); each leaves the
\* size at every other position, the working entity and the upload map
\* unchanged; grow never lowers a size and shrink never raises one.
C21_GrowShrink ==
    [][\A p \in Positions :
          /\ GrowShrinkEffect(p)
          /\ Grow(p) => listFieldSize'[p] >= listFieldSize[p]
          /\ Shrink(p) => listFieldSize'[p] <= listFieldSize[p]]_vars

\* C21: grow at position p sets size[p] to min(size[p]+1, 10) and shrink at
\* position p sets size[p] to max(size[p]-1, 1); each leaves the size at
\* every other position, the working entity and the upload map unchanged;
\* grow never lowers a size of at most 10 and shrink never raises a size of
\* at least 1 (a list opened on more than ten rows is lowered to 10 by grow,
\* a list opened on none is raised to 1 by shrink).
C21_GrowShrinkWithin ==
    [][\A p \in Positions :
          /\ GrowShrinkEffect(p)
          /\ (Grow(p) /\ listFieldSize[p] <= 10) => listFieldSize'[p] >= listFieldSize[p]
          /\ (Shrink(p) /\ listFieldSize[p] >= 1) => listFieldSize'[p] <= listFieldSize[p]]_vars

\* C21 witness: of two lists, Add has taken one from 0 rows to 3 and Remove
\* the other from 11 rows to 9, the entity being as the form was opened
C21_GrownAndShrunk ==
    \E p \in ListPositions : \E q \in ListPositions \ {p} :
        /\ ListFieldSizeInit(editEntries, entityObj)[p] = 0
        /\ listFieldSize[p] = 3
        /\ ListFieldSizeInit(editEntries, entityObj)[q] = 11
        /\ listFieldSize[q] = 9
        /\ entity = RenderEffects(entityObj, editEntries, 1)

\* The values a list attribute is seen to hold: as the form was opened, as
\* the write loops handed it to the checks, and as the last call left it
StoredLists(p) ==
    { Lookup(e, editEntries[p].attribute) :
        e \in {entityObj, entity} \cup {submitEntity[i] : i \in 1..Len(submitEntity)} }

\* C22: list pruning is idempotent.  For any stored sequence and any
\* ListSize, pruning the result of a pruning again (same ListSize) yields the
\* same sequence; a second submission with unchanged inputs leaves an
\* already-pruned list unchanged.
C22_PruneIdempotent ==
    /\ [](\A p \in ListPositions : \A value \in StoredLists(p) :
            \A size \in 0..(MaxIndex + 1) :
               PruneList(PruneList(value, size), size) = PruneList(value, size))
    /\ [][(timers' > timers /\ repeated') =>
            \A p \in ListPositions :
               listFieldSize[p] > 0 =>
                  Lookup(entity', editEntries[p].attribute)
                    = Lookup(entity, editEntries[p].attribute)]_vars

\* C22 witness: a committed submission whose pruning had removed rows from a
\* list was made a second time with the same inputs, and committed again
C22_PrunedTwice ==
    /\ repeated
    /\ outcome = "Scheduled"
    /\ \E p \in ListPositions :
          LET value == Lookup(entity, editEntries[p].attribute)
          IN  /\ listFieldSize[p] > 0
              /\ value # Lookup(submitEntity[1], editEntries[p].attribute)
              /\ PruneList(value, listFieldSize[p]) = value

\* The sequence of the non-empty newline-separated segments of a text
Lines(value) ==
    ArrOf([i \in 1..Len(FilterNonEmpty(Split(value, LF))) |->
              Str(FilterNonEmpty(Split(value, LF))[i])])

\* The controls of the last submission whose name decodes to an attribute or
\* to a subfield of one, radio buttons left unchecked apart
ScalarControls ==
    { c \in Controls : /\ PathOf(c).kind \in {"attribute", "sub"}
                       /\ ~(c.type = "radio" /\ ~c.checked) }

\* What the loop body writes for a control on an entity without attributes
WrittenAlone(c) ==
    ValueAt(DecodeElement(<<>>, c, editEntries, listFieldSize).e, PathOf(c))

\* C23: newline transform.  Whenever a decoded raw value is text containing
\* a newline (at any path, including a top-level attribute such as a
\* TextArea), or the decoded subfield is literally content (for any value,
\* including the empty string), the value written to the entity is the
\* sequence of its non-empty newline-separated segments; in every other case
\* the scalar is written unchanged.
C23_NewlineTransform ==
    \A c \in ScalarControls :
        WrittenAlone(c) =
            IF Includes(c.value, <<LF>>)
               \/ (PathOf(c).kind = "sub" /\ PathOf(c).sub = S_content)
            THEN Lines(c.value)
            ELSE Str(c.value)

\* The callbacks task t has made, and the places of its onComplete calls
CallsOf(t) == taskCalls[t]
Completions(t) == {i \in 1..Len(CallsOf(t)) : CallsOf(t)[i].cb = "onComplete"}

\* The callbacks made so far follow the protocol
ProtocolSoFar(t) ==
    /\ \A i \in 1..Len(CallsOf(t)) :
          CallsOf(t)[i].cb = "onProgress" => CallsOf(t)[i].progress \in 0..100
    /\ \A i \in 1..Len(CallsOf(t)) : \A j \in i..Len(CallsOf(t)) :
          (CallsOf(t)[i].cb = "onProgress" /\ CallsOf(t)[j].cb = "onProgress")
            => CallsOf(t)[i].progress <= CallsOf(t)[j].progress
    /\ Cardinality(Completions(t)) <= 1
    /\ \A i \in Completions(t) :
          /\ i = Len(CallsOf(t))
          /\ i > 1
          /\ CallsOf(t)[i - 1] = Progress(100)

\* C24: upload callback protocol.  For one started upload, the progress
\* values delivered to onProgress are all within 0..100 and non-decreasing,
\* onComplete is invoked exactly once, only after the progress callback that
\* reports 100, and no progress or completion callback is delivered after
\* onComplete.
C24_CallbackProtocol ==
    /\ [](\A t \in 1..MaxTasks : ProtocolSoFar(t))
    /\ [][\A t \in 1..MaxTasks :
             Completions(t) # {} => taskCalls'[t] = taskCalls[t]]_vars
    /\ \A t \in 1..MaxTasks : (taskPhase[t] # "none") ~> (Completions(t) # {})

\* C24 witness: an upload has reported 10, 20, ..., 100 and completed while
\* another one was half way
C24_CompletedAfterHundred ==
    \E t \in 1..MaxTasks : \E u \in 1..MaxTasks :
        /\ Len(CallsOf(t)) = 11
        /\ CallsOf(t)[1] = Progress(10)
        /\ CallsOf(t)[10] = Progress(100)
        /\ CallsOf(t)[11] = Complete
        /\ Len(CallsOf(u)) = 5

\* The path a map of upload results holds for a field name, if any
PathsFor(map, fieldName) ==
    { map[i].path : i \in {j \in 1..Len(map) : map[j].name = fieldName} }

\* The completion callback that ran last
LastCompletion == completions[Len(completions)]

\* What holds when a completion callback has just run: the map holds the
\* upload's path, and only it, for the upload's field, and merging the
\* result once more changes nothing
MergedAsOverwrite ==
    /\ PathsFor(uploadPhotoMap, LastCompletion.fieldName) = {LastCompletion.path}
    /\ WithUpload(uploadPhotoMap, LastCompletion.fieldName, LastCompletion.path)
         = uploadPhotoMap

\* C25: a stale completion after cancel is tolerated.  Calling cancel() on an
\* upload does not prevent its completion callback from arriving later; when
\* it arrives its result is merged as a plain overwrite of that field's
\* entry; merging the same upload result twice leaves the upload map and the
\* submitted entity the same as merging it once, and the later of two
\* completions for the same field wins.
C25_StaleCompletionTolerated ==
    /\ [](\A u \in uploads : u.cancelled => ENABLED CompleteUpload(u))
    /\ [](submitEntity # <<>> =>
            MergeLoop(Ok(submitEntity[1]), submitUploads, 1, editEntries)
              = Ok(submitEntity[1]))
    /\ [][Len(completions') > Len(completions) => MergedAsOverwrite']_vars

\* C25 witness: of two uploads for the same field the first was cancelled
\* and yet completed, the second completed after it, and a submission then
\* merged the second one's path into the entity
C25_LaterCompletionMerged ==
    /\ Len(completions) = 2
    /\ completions[1].cancelled
    /\ completions[1].fieldName = completions[2].fieldName
    /\ completions[1].path # completions[2].path
    /\ submitEntity # <<>>
    /\ submitUploads = uploadPhotoMap
    /\ ValueAt(submitEntity[1], Decode(completions[2].fieldName, UpdateTargets(editEntries)))
         = Str(completions[2].path)

\* C26: the loading indicator shown at the start of a submission is
\* eventually hidden after every submission attempt, whether the attempt
\* ends Committed or Rejected; no sequence of submissions leaves the
\* indicator shown forever.  Once the last call of handleSubmit has returned
\* and no deferred callback is left to run, nothing more will happen on its
\* behalf, so by then the indicator must be hidden.
C26_LoadingHidden ==
    (Attempted /\ timers = 0) => ~isLoading

\* Two completion callbacks, the i-th and the j-th to run, of uploads for
\* different fields that were both started before either completed
Overlapped(i, j) ==
    /\ i < j
    /\ completions[i].fieldName # completions[j].fieldName
    /\ completions[j].after < i

\* No completion has run since the j-th
LastTwo(i, j) == j = Len(completions) /\ i = j - 1

\* C27: no upload result is lost when uploads overlap.  If two uploads for
\* different field names are started before either completes, then after
\* both completion callbacks have run, in either order, the upload map holds
\* the stored path of both fields, and a later submission merges both into
\* the entity.
C27_NoUploadLost ==
    \A i \in 1..Len(completions) : \A j \in 1..Len(completions) :
        (Overlapped(i, j) /\ LastTwo(i, j)) =>
            /\ PathsFor(uploadPhotoMap, completions[i].fieldName) = {completions[i].path}
            /\ PathsFor(uploadPhotoMap, completions[j].fieldName) = {completions[j].path}
            /\ (submitEntity # <<>> /\ submitUploads = uploadPhotoMap) =>
                  \A k \in {i, j} :
                     ValueAt(submitEntity[1],
                             Decode(completions[k].fieldName, UpdateTargets(editEntries)))
                       = Str(completions[k].path)

\* C28: the entity the success handler receives is the entity that passed
\* validation.  The deferred callback hands over the working entity as it is
\* when the timer fires, so the claim holds exactly when no step taken while
\* a delivery is pending (adding or removing a pill, selecting files, a
\* second submission) changes an attribute of the working entity, and the
\* delivery hands over that entity.
C28_DeliveredAsValidated ==
    [][/\ (timers > 0 /\ timers' >= timers) => entity' = entity
       /\ timers' < timers => delivered' = <<entity>>]_vars

\* The descriptors marked required
RequiredPositions == {p \in Positions : editEntries[p].isRequired}

\* C29: a submission is Committed only if every descriptor marked required
\* holds a non-empty value at its attribute, where an empty sequence (for
\* example a PillList from which every pill was removed) and an empty mapping
\* count as empty just like an empty string or a missing attribute.
C29_RequiredNonEmpty ==
    [][timers' > timers =>
         \A p \in RequiredPositions :
            LET value == Lookup(entity', editEntries[p].attribute)
            IN  /\ NonEmpty(value)
                /\ IsObject(value) => NumKeys(value) > 0]_vars

\* A content holding at least one non-empty line: a sequence with a
\* non-empty string among its elements, or a text with a character other
\* than the newline
HasLine(content) ==
    CASE IsString(content) -> \E i \in 1..Len(content.s) : content.s[i] # LF
      [] IsObject(content) ->
           \E k \in DOMAIN content.o :
              IsString(content.o[k]) /\ content.o[k].s # <<>>
      [] OTHER -> FALSE

\* An Article value as a committed entity may hold it, provided meaning what
\* counts as a content that was provided
ArticleCommittable(article, provided(_)) ==
    \/ article = EmptyObj
    \/ /\ IsObject(article)
       /\ NonEmpty(GetProp(article, S_title))
       /\ NonEmpty(GetProp(article, S_image_url))
       /\ provided(GetProp(article, S_content))

\* C30: in every Committed entity, the value of each Article-typed attribute
\* is either the empty object or has a non-empty title, an image_url, and a
\* content holding at least one non-empty line; a content made only of
\* newlines never counts as provided.
C30_CommittedArticle ==
    [][timers' > timers =>
         \A p \in PositionsOf("Article") :
            ArticleCommittable(Lookup(entity', editEntries[p].attribute), HasLine)]_vars

\* The same with any content the code takes for present (any value but the
\* empty string) counted as provided
CommittedArticleTruthy ==
    [][timers' > timers =>
         \A p \in PositionsOf("Article") :
            ArticleCommittable(Lookup(entity', editEntries[p].attribute), Truthy)]_vars
====
